---------------------------- MODULE Spec2Model ----------------------------
(***************************************************************************)
(* Model of the AIS ingestion workers of cruise-tracker                    *)
(* (backend/TrackAPI.py run_sync_worker.on_message and backend/worker.py   *)
(* on_message): the in-memory registries mmsi_registry and trip_state, the *)
(* Firestore documents ships/{mmsi} and the track log ships/{mmsi}/tracks. *)
(*                                                                         *)
(* Eight specifications, one for each part of the program:                 *)
(*  - Spec: the message handlers within one connection;                    *)
(*  - SpecLoop (FairSpecLoop with fairness): the start of the worker and   *)
(*    the retry loop around the connection;                                *)
(*  - SpecScan: the loop of voyage_utils.detect_port_stops, point by point;*)
(*  - SpecDetect: a call of detect_port_stops as a whole;                  *)
(*  - SpecCalls: a call of predict_next_port, estimate_eta_hours,          *)
(*    confidence_score, api_voyage, firestore_db.get_track_points, or of   *)
(*    the position branch of on_message on a given trip state;             *)
(*  - SpecThreads: the worker threads run_worker_forever starts, a         *)
(*    position report handled in steps;                                    *)
(*  - SpecRestart: the handlers of Spec with restarts of the process;      *)
(*  - SpecReconnect: the retry loop of SpecLoop with the handlers of Spec  *)
(*    running while the connection is open.                                *)
(*                                                                         *)
(* Abstractions, all stated where they are made:                           *)
(*  - strings are sequences of one-character strings;                      *)
(*  - the wall clock ticks in whole seconds, and an ISO timestamp with     *)
(*    timespec="seconds" is the number of seconds it denotes;              *)
(*  - coordinates lie on one meridian and a latitude is given in metres of *)
(*    arc from the equator, so that the haversine distance of two points   *)
(*    is the absolute difference of their latitudes;                       *)
(*  - Python's None (and a JSON key that is absent) is the value None.     *)
(***************************************************************************)
EXTENDS Integers, Sequences, FiniteSets, TLC

VARIABLES
    variant,        \* which ingestion entry point runs: "TrackAPI" or "worker"
    mmsi_registry,  \* dict mmsi -> [name, line]
    trip_state,     \* dict mmsi -> [trip_id, last_ts, last_lat, last_lon]
    ships,          \* Firestore collection ships: mmsi -> document (field -> value)
    tracks,         \* Firestore subcollections ships/{mmsi}/tracks, in append order
    now,            \* the wall clock, in seconds
    msg,            \* the frame most recently handed to on_message (NoMsg: none since the clock moved)
    out             \* the Firestore calls on_message made for msg, in call order

vars == <<variant, mmsi_registry, trip_state, ships, tracks, now, msg, out>>

----------------------------------------------------------------------------
(* Bounds of the model *)

\* a vessel's track is fed position reports until it holds MaxTrack points
MaxTrack == 3

\* the instants, in seconds, at which the clock is read: half a minute, a
\* minute, and six hours after the half minute
Times == {0, 30, 60, 21630}

\* latitudes (metres of arc) of the reports: 200 m and 150 km from the first
Lats == {0, 200, 150000}

----------------------------------------------------------------------------
(* Python values *)

None == 0 - 1

\* a timestamp string datetime.fromisoformat rejects
BadTs == 0 - 2

\* dict.get(k): the value, or NoneRec where Python gives None
NoneRec == [none |-> TRUE]

Get(d, k) == IF k \in DOMAIN d THEN d[k] ELSE NoneRec

\* d[k] = v on a dict
Put(d, k, v) == [x \in (DOMAIN d) \cup {k} |-> IF x = k THEN v ELSE d[x]]

EmptyDict == [x \in {} |-> None]

\* str(mmsi) for the user ids of the model
Str(n) == CASE n = 1 -> "1" [] n = 2 -> "2" [] OTHER -> "?"

----------------------------------------------------------------------------
(* Constants of the program *)

NEW_TRIP_GAP_HOURS == 6
NEW_TRIP_JUMP_KM == 150
MIN_POINT_DISTANCE_M == 200
MIN_POINT_TIME_SEC == 60
MAX_REASONABLE_SOG == 80

NUL == "NUL"
Whitespace == {" ", "\t"}

MSC_OPERA == <<"M","S","C"," ","O","P","E","R","A">>
MARDI_GRAS == <<"M","A","R","D","I"," ","G","R","A","S">>

\* LINE_FLEETS, cut down to two lines of one ship each, in dict order
LineOrder == <<"carnival", "msc">>
LINE_FLEETS == [line \in {"carnival", "msc"} |->
                  IF line = "carnival" THEN {MARDI_GRAS} ELSE {MSC_OPERA}]

----------------------------------------------------------------------------
(* normalize_name and find_line_for_ship *)

LowerChars == <<"a","b","c","d","e","f","g","h","i","j","k","l","m",
                "n","o","p","q","r","s","t","u","v","w","x","y","z">>
UpperChars == <<"A","B","C","D","E","F","G","H","I","J","K","L","M",
                "N","O","P","Q","R","S","T","U","V","W","X","Y","Z">>

\* str.upper() on one character
ToUpper(c) ==
    IF \E i \in 1..Len(LowerChars) : LowerChars[i] = c
    THEN UpperChars[CHOOSE i \in 1..Len(LowerChars) : LowerChars[i] = c]
    ELSE c

\* str.replace("\x00", " ")
ReplaceNul(s) == [i \in 1..Len(s) |-> IF s[i] = NUL THEN " " ELSE s[i]]

\* str.strip()
Strip(s) ==
    LET keep == {i \in 1..Len(s) : s[i] \notin Whitespace}
    IN  IF keep = {} THEN <<>>
        ELSE SubSeq(s, CHOOSE i \in keep : \A j \in keep : i <= j,
                       CHOOSE i \in keep : \A j \in keep : i >= j)

\* str.upper()
UpperStr(s) == [i \in 1..Len(s) |-> ToUpper(s[i])]

\* str.split(): the maximal runs of non-whitespace characters
RECURSIVE SplitFrom(_, _, _)
SplitFrom(s, i, word) ==
    IF i > Len(s) THEN (IF word = <<>> THEN <<>> ELSE <<word>>)
    ELSE IF s[i] \in Whitespace
         THEN (IF word = <<>> THEN <<>> ELSE <<word>>) \o SplitFrom(s, i + 1, <<>>)
         ELSE SplitFrom(s, i + 1, Append(word, s[i]))

Split(s) == SplitFrom(s, 1, <<>>)

\* " ".join(words)
RECURSIVE Join(_)
Join(words) ==
    IF words = <<>> THEN <<>>
    ELSE IF Len(words) = 1 THEN words[1]
    ELSE words[1] \o <<" ">> \o Join(Tail(words))

\* normalize_name without upper()
normalize_name_no_upper(name) == Join(Split(Strip(ReplaceNul(name))))

normalize_name(name) == Join(Split(UpperStr(Strip(ReplaceNul(name)))))

\* the first line, in dict order, whose fleet holds the name; "" where Python gives None
RECURSIVE FindFrom(_, _)
FindFrom(ship_name, i) ==
    IF i > Len(LineOrder) THEN ""
    ELSE IF ship_name \in LINE_FLEETS[LineOrder[i]] THEN LineOrder[i]
    ELSE FindFrom(ship_name, i + 1)

\* find_line_for_ship returning the loop variable after the loop
find_line_for_ship_leaks_last(ship_name) ==
    IF FindFrom(ship_name, 1) = "" THEN LineOrder[Len(LineOrder)] ELSE FindFrom(ship_name, 1)

find_line_for_ship(ship_name) == FindFrom(ship_name, 1)

----------------------------------------------------------------------------
(* Clock, distance, and the two segmentation rules *)

\* datetime.now(timezone.utc).isoformat(timespec="seconds")
utc_now_iso == now

\* haversine_km * 1000, on one meridian
Abs(x) == IF x < 0 THEN 0 - x ELSE x
haversine_m(lat1, lon1, lat2, lon2) == Abs(lat2 - lat1)

\* (cur_t - prev_t).total_seconds() of two strings that parse
total_seconds(prev_ts, ts_iso) == ts_iso - prev_ts

\* the try block with the time never taken for elapsed where it fails
elapsed_or_zero(prev, ts_iso, on_error) ==
    IF prev.last_ts = BadTs \/ ts_iso = BadTs THEN 0
    ELSE total_seconds(prev.last_ts, ts_iso)

\* try: (cur_t - prev_t).total_seconds()  except Exception: on_error
elapsed_or(prev, ts_iso, on_error) ==
    IF prev.last_ts = BadTs \/ ts_iso = BadTs THEN on_error
    ELSE total_seconds(prev.last_ts, ts_iso)

\* should_record_point without the distance clause
should_record_point_time_only(prev, lat, lon, ts_iso) ==
    IF prev = NoneRec THEN TRUE
    ELSE elapsed_or(prev, ts_iso, MIN_POINT_TIME_SEC) >= MIN_POINT_TIME_SEC

\* should_record_point with > for >= in the time clause
should_record_point_strict(prev, lat, lon, ts_iso) ==
    IF prev = NoneRec THEN TRUE
    ELSE LET dt == elapsed_or(prev, ts_iso, MIN_POINT_TIME_SEC)
             dist_m == haversine_m(prev.last_lat, prev.last_lon, lat, lon)
         IN  (dt > MIN_POINT_TIME_SEC) \/ (dist_m >= MIN_POINT_DISTANCE_M)

should_record_point(prev, lat, lon, ts_iso) ==
    IF prev = NoneRec THEN TRUE
    ELSE LET dt == elapsed_or(prev, ts_iso, MIN_POINT_TIME_SEC)
             dist_m == haversine_m(prev.last_lat, prev.last_lon, lat, lon)
         IN  (dt >= MIN_POINT_TIME_SEC) \/ (dist_m >= MIN_POINT_DISTANCE_M)

\* maybe_new_trip with "and" for "or"
maybe_new_trip_both(prev, lat, lon, ts_iso) ==
    IF prev = NoneRec THEN TRUE
    ELSE LET gap_seconds == elapsed_or(prev, ts_iso, 0)
             jump_m == haversine_m(prev.last_lat, prev.last_lon, lat, lon)
         IN  (gap_seconds >= NEW_TRIP_GAP_HOURS * 3600) /\ (jump_m >= NEW_TRIP_JUMP_KM * 1000)

\* gap_hours >= NEW_TRIP_GAP_HOURS, with gap_hours = seconds / 3600, and
\* jump_km >= NEW_TRIP_JUMP_KM, both without fractions
maybe_new_trip(prev, lat, lon, ts_iso) ==
    IF prev = NoneRec THEN TRUE
    ELSE LET gap_seconds == elapsed_or(prev, ts_iso, 0)
             jump_m == haversine_m(prev.last_lat, prev.last_lon, lat, lon)
         IN  (gap_seconds >= NEW_TRIP_GAP_HOURS * 3600) \/ (jump_m >= NEW_TRIP_JUMP_KM * 1000)

----------------------------------------------------------------------------
(* The frames the feed delivers *)

Frame(mtype, uid, name, lat, lon, sog, cog) ==
    [MessageType |-> mtype, UserID |-> uid, Name |-> name,
     Latitude |-> lat, Longitude |-> lon, Sog |-> sog, Cog |-> cog]

\* no frame handled since the clock last moved
NoMsg == Frame("", None, <<>>, None, None, None, None)

\* raw names: two spellings that normalize to MSC OPERA, one exact fleet
\* name, one name of no fleet, and the empty (or absent) name
RawMessy == <<" ","m","s","c",NUL," ","o","p","e","r","a"," ">>
RawTug == <<"T","U","G">>
ClassifiedRaw == {RawMessy, MSC_OPERA, MARDI_GRAS}
UnclassifiedRaw == {RawTug}
RawNames == ClassifiedRaw \cup UnclassifiedRaw \cup {<<>>}

\* user ids: vessel 1 reports every name and position of the model, vessel 2
\* is a vessel of no fleet (it never names itself but as RawTug or not at
\* all), and 0 and None are the falsy ids
Vessels == {1, 2}
Falsy == {0, None}

StaticFrames ==
    {Frame("ShipStaticData", 1, n, None, None, None, None) : n \in RawNames}
    \cup {Frame("ShipStaticData", 2, RawTug, None, None, None, None),
          Frame("ShipStaticData", None, MSC_OPERA, None, None, None, None)}

\* reports that pass the sanity filter at every latitude of the model, and
\* one report each that is too fast, lacks the latitude, lacks the longitude
PositionFrames ==
    {Frame("PositionReport", 1, <<>>, lat, 0, 80, 90) : lat \in Lats}
    \cup {Frame("PositionReport", 1, <<>>, 0, 0, 81, 90),
          Frame("PositionReport", 1, <<>>, None, 0, 80, 90),
          Frame("PositionReport", 1, <<>>, 0, None, 80, 90),
          Frame("PositionReport", 2, <<>>, 0, 0, 80, 90),
          Frame("PositionReport", 0, <<>>, 0, 0, 80, 90)}

\* a payload json.loads rejects, and a frame of another MessageType
OtherFrames ==
    {Frame("undecodable", None, <<>>, None, None, None, None),
     Frame("UnknownMessage", None, <<>>, None, None, None, None)}

----------------------------------------------------------------------------
(* Firestore *)

\* document.set(fields, merge=True)
Merge(doc, fields) ==
    [k \in (DOMAIN doc) \cup (DOMAIN fields) |->
        IF k \in DOMAIN fields THEN fields[k] ELSE doc[k]]

\* fs_upsert_ship / upsert_ship_last_seen: ships/{mmsi}.set(fields, merge=True)
fs_upsert_ship(db, mmsi, fields) ==
    Put(db, mmsi, IF mmsi \in DOMAIN db THEN Merge(db[mmsi], fields) ELSE fields)

\* fs_append_track_point / append_track_point: ships/{mmsi}/tracks.add(point)
fs_append_track_point(db, mmsi, point) ==
    Put(db, mmsi, IF mmsi \in DOMAIN db THEN Append(db[mmsi], point) ELSE <<point>>)

Call(op, mmsi) == [op |-> op, mmsi |-> mmsi]

----------------------------------------------------------------------------
(* on_message, identity branch *)

\* a frame on_message returns from without doing anything
Drop(m) ==
    /\ msg' = m
    /\ out' = <<>>
    /\ UNCHANGED <<variant, mmsi_registry, trip_state, ships, tracks, now>>

\* json.loads fails, or MessageType is neither of the two handled
OnOtherFrame(m) ==
    /\ m \in OtherFrames
    /\ Drop(m)

\* TrackAPI.py: the registry and the ship record are written only when the
\* identity is new or changed
StaticTrackAPI(m) ==
    IF m.UserID \in Falsy \/ m.Name = <<>> THEN Drop(m)
    ELSE LET ship_name == normalize_name(m.Name)
             line == find_line_for_ship(ship_name)
             mmsi_str == Str(m.UserID)
             prev == Get(mmsi_registry, mmsi_str)
         IN  IF line = "" THEN Drop(m)
             ELSE IF prev = NoneRec \/ prev.name # ship_name \/ prev.line # line
             THEN /\ mmsi_registry' = Put(mmsi_registry, mmsi_str, [name |-> ship_name, line |-> line])
                  /\ ships' = fs_upsert_ship(ships, mmsi_str,
                                  [mmsi |-> mmsi_str, name |-> ship_name, line |-> line])
                  /\ out' = <<Call("upsert", mmsi_str)>>
                  /\ msg' = m
                  /\ UNCHANGED <<variant, trip_state, tracks, now>>
             ELSE Drop(m)

\* worker.py: the registry and the ship record are written on every
\* classified identity frame, the position fields as None
StaticWorker(m) ==
    IF m.UserID \in Falsy \/ m.Name = <<>> THEN Drop(m)
    ELSE LET name == normalize_name(m.Name)
             line == find_line_for_ship(name)
             mmsi_str == Str(m.UserID)
         IN  IF line = "" THEN Drop(m)
             ELSE /\ mmsi_registry' = Put(mmsi_registry, mmsi_str, [name |-> name, line |-> line])
                  /\ ships' = fs_upsert_ship(ships, mmsi_str,
                                  [name |-> name, line |-> line, lat |-> None, lon |-> None,
                                   speed |-> None, course |-> None, last_seen |-> None])
                  /\ out' = <<Call("upsert", mmsi_str)>>
                  /\ msg' = m
                  /\ UNCHANGED <<variant, trip_state, tracks, now>>

OnShipStaticData(m) ==
    /\ m \in StaticFrames
    /\ IF variant = "TrackAPI" THEN StaticTrackAPI(m) ELSE StaticWorker(m)

----------------------------------------------------------------------------
(* on_message, position branch (the same in TrackAPI.py and worker.py but *)
(* for the mmsi field TrackAPI.py adds to what it writes)                  *)

\* mmsi_registry.get(mmsi_str, <an identity of no name and no line>)
mmsi_registry_get_default(mmsi_str) ==
    IF mmsi_str \in DOMAIN mmsi_registry THEN mmsi_registry[mmsi_str]
    ELSE [name |-> <<>>, line |-> ""]

\* reg = mmsi_registry.get(mmsi_str)
mmsi_registry_get(mmsi_str) == Get(mmsi_registry, mmsi_str)

\* the sanity filter without the speed check
passes_sanity_coords_only(lat, lon, sog) == ~(lat = None \/ lon = None)

\* neither coordinate is None, and a numeric sog is at most MAX_REASONABLE_SOG
passes_sanity(lat, lon, sog) ==
    /\ ~(lat = None \/ lon = None)
    /\ ~(sog # None /\ sog > MAX_REASONABLE_SOG)

\* the trip id falling back to 1 where the trip goes on
assign_trip_id_else_one(prev, lat, lon, ts) ==
    IF maybe_new_trip(prev, lat, lon, ts)
    THEN (IF prev # NoneRec THEN prev.trip_id + 1 ELSE 1)
    ELSE 1

\* the trip id the report gets
assign_trip_id(prev, lat, lon, ts) ==
    IF maybe_new_trip(prev, lat, lon, ts)
    THEN (IF prev # NoneRec THEN prev.trip_id + 1 ELSE 1)
    ELSE prev.trip_id

\* trip_state[mmsi_str] written without last_ts where the vessel has a state
update_trip_state_keeps_ts(d, mmsi_str, trip_id, ts, lat, lon) ==
    Put(d, mmsi_str, [trip_id |-> trip_id,
                      last_ts |-> IF mmsi_str \in DOMAIN d THEN d[mmsi_str].last_ts ELSE ts,
                      last_lat |-> lat, last_lon |-> lon])

\* trip_state[mmsi_str] = {...}
update_trip_state(d, mmsi_str, trip_id, ts, lat, lon) ==
    Put(d, mmsi_str, [trip_id |-> trip_id, last_ts |-> ts, last_lat |-> lat, last_lon |-> lon])

\* the fields of the last-seen upsert (the datetime twins last_seen_dt and
\* updated_at of TrackAPI.py repeat last_seen and are left out)
LastSeenFields(mmsi_str, reg, lat, lon, sog, cog, ts) ==
    LET common == [name |-> reg.name, line |-> reg.line, lat |-> lat, lon |-> lon,
                   speed |-> sog, course |-> cog, last_seen |-> ts]
    IN  IF variant = "TrackAPI" THEN Merge(common, [mmsi |-> mmsi_str]) ELSE common

\* the track point written (ts_dt of TrackAPI.py repeats ts and is left out)
TrackPoint(mmsi_str, trip_id, ts, lat, lon, sog, cog) ==
    LET common == [trip_id |-> trip_id, ts |-> ts, lat |-> lat, lon |-> lon,
                   sog |-> sog, cog |-> cog]
    IN  IF variant = "TrackAPI" THEN Merge(common, [mmsi |-> mmsi_str]) ELSE common

TrackOf(mmsi_str) == IF mmsi_str \in DOMAIN tracks THEN tracks[mmsi_str] ELSE <<>>

OnPositionReport(m) ==
    /\ m \in PositionFrames
    /\ m.UserID \in Vessels => Len(TrackOf(Str(m.UserID))) < MaxTrack
    /\ IF m.UserID \in Falsy THEN Drop(m)
       ELSE LET mmsi_str == Str(m.UserID)
                reg == mmsi_registry_get(mmsi_str)
                lat == m.Latitude
                lon == m.Longitude
                sog == m.Sog
                cog == m.Cog
            IN  IF reg = NoneRec THEN Drop(m)
                ELSE IF ~passes_sanity(lat, lon, sog) THEN Drop(m)
                ELSE LET ts == utc_now_iso
                         prev_state == Get(trip_state, mmsi_str)
                         trip_id == assign_trip_id(prev_state, lat, lon, ts)
                         record == should_record_point(prev_state, lat, lon, ts)
                     IN  /\ ships' = fs_upsert_ship(ships, mmsi_str,
                                         LastSeenFields(mmsi_str, reg, lat, lon, sog, cog, ts))
                         /\ tracks' = IF record
                                      THEN fs_append_track_point(tracks, mmsi_str,
                                               TrackPoint(mmsi_str, trip_id, ts, lat, lon, sog, cog))
                                      ELSE tracks
                         /\ trip_state' = update_trip_state(trip_state, mmsi_str, trip_id, ts, lat, lon)
                         /\ out' = IF record
                                   THEN <<Call("upsert", mmsi_str), Call("append", mmsi_str)>>
                                   ELSE <<Call("upsert", mmsi_str)>>
                         /\ msg' = m
                         /\ UNCHANGED <<variant, mmsi_registry, now>>

----------------------------------------------------------------------------
(* The clock moves between frames *)

Tick ==
    /\ \E t \in Times : t > now /\ now' = t
    /\ msg' = NoMsg
    /\ out' = <<>>
    /\ UNCHANGED <<variant, mmsi_registry, trip_state, ships, tracks>>

----------------------------------------------------------------------------

(* The state of the other parts of the program: the supervised retry loop  *)
(* around the connection.  The message handlers above run inside one       *)
(* connection and do not touch it.                                         *)
VARIABLES
    api_key,        \* os.getenv("AISSTREAM_API_KEY"): KeyUnset, "" or a key
    pc,             \* where the entry point stands
    backoff,        \* the local backoff of the retry loop, None before it is set
    slept,          \* the delay of the last sleep, None before the first
    reconnects,     \* sleeps of the retry loop so far, counted up to MaxReconnects
    last_run,       \* how the last connection run ended
    was_open,       \* whether on_open was called in the current or last run
    starts          \* starts of the worker so far, counted up to MaxStarts

loop_vars == <<api_key, pc, backoff, slept, reconnects, last_run, was_open, starts>>

\* os.getenv returns None for a variable that is not set
KeyUnset == "None"

\* the retry loop before the process has done anything
LoopAtRest ==
    /\ pc = "start"
    /\ backoff = None
    /\ slept = None
    /\ reconnects = 0
    /\ last_run = "none"
    /\ was_open = FALSE
    /\ starts = 0

\* the message handlers before the first frame
HandlersAtRest ==
    /\ mmsi_registry = EmptyDict
    /\ trip_state = EmptyDict
    /\ ships = EmptyDict
    /\ tracks = EmptyDict
    /\ now = 0
    /\ msg = NoMsg
    /\ out = <<>>

(* The state of a call of voyage_utils.detect_port_stops, which reads what *)
(* the handlers stored and shares no state with them: its two arguments,   *)
(* the locals of its loop and what it returned.                            *)
VARIABLES
    ports_in,       \* the argument ports
    points_in,      \* the argument points, where the call is modelled whole
    result,         \* the list returned, <<>> before the return
    det_pc,         \* "idle", "called" or "returned"
    scan,           \* the locals current and stops of the loop
    scanned,        \* the time of the last point the loop took with a
                    \* timestamp it could parse, None before the first
    scan_pc         \* "idle", "scanning" or "returned"

detect_vars == <<points_in, result, det_pc>>
scan_vars == <<scan, scanned, scan_pc>>

DetectAtRest ==
    /\ points_in = <<>>
    /\ result = <<>>
    /\ det_pc = "idle"

ScanAtRest ==
    /\ scan = [current |-> NoneRec, stops |-> <<>>]
    /\ scanned = None
    /\ scan_pc = "idle"

(* The state of a call of one of the functions behind the voyage card,     *)
(* which share no state with anything: the call, what it returned and,     *)
(* for predict_next_port, what its loop computed for each candidate.       *)
VARIABLES
    call,           \* the function called and its arguments
    ret,            \* what it returned, NoneRec before the return
    scored,         \* predict_next_port: port, dkm, scores of each candidate
    call_pc         \* "idle", "called" or "returned"

calls_vars == <<call, ret, scored, call_pc>>

CallsAtRest ==
    /\ call = NoneRec
    /\ ret = NoneRec
    /\ scored = <<>>
    /\ call_pc = "idle"

(* The process the handlers run in: the threads run_worker_forever has    *)
(* started for run_sync_worker, where run_worker_forever stands, and how  *)
(* many times the process has been started.                               *)
VARIABLES
    threads,        \* the worker threads in the order they were started
    sup_pc,         \* run_worker_forever: "idle", "start", "awaiting" or "sleeping"
    boots           \* starts of the process so far, counted up to MaxBoots

process_vars == <<threads, sup_pc, boots>>

ProcessAtRest ==
    /\ threads = <<>>
    /\ sup_pc = "idle"
    /\ boots = 1

other_vars == <<loop_vars, ports_in, detect_vars, scan_vars, calls_vars, process_vars>>
beside_loop == <<vars, ports_in, detect_vars, scan_vars, calls_vars, process_vars>>
beside_detect == <<vars, loop_vars, scan_vars, calls_vars, process_vars>>
beside_scan == <<vars, loop_vars, detect_vars, calls_vars, process_vars>>
beside_calls == <<vars, loop_vars, ports_in, detect_vars, scan_vars, process_vars>>
beside_process == <<loop_vars, ports_in, detect_vars, scan_vars, calls_vars>>
all_vars == <<vars, other_vars>>

Init ==
    /\ variant \in {"TrackAPI", "worker"}
    /\ HandlersAtRest
    /\ api_key = "k3y"
    /\ LoopAtRest
    /\ ports_in = <<>>
    /\ DetectAtRest
    /\ ScanAtRest
    /\ CallsAtRest
    /\ ProcessAtRest

Next ==
    \/ \E m \in StaticFrames : OnShipStaticData(m) /\ UNCHANGED other_vars
    \/ \E m \in PositionFrames : OnPositionReport(m) /\ UNCHANGED other_vars
    \/ \E m \in OtherFrames : OnOtherFrame(m) /\ UNCHANGED other_vars
    \/ Tick /\ UNCHANGED other_vars

Spec == Init /\ [][Next]_all_vars

----------------------------------------------------------------------------
(* Vocabulary of the properties.  A step that sets msg to a frame is the   *)
(* handling of that frame; the unprimed variables are the state on_message *)
(* found, the primed ones the state it left.                               *)

Key(m) == Str(m.UserID)

IsPosition(m) == m.MessageType = "PositionReport" /\ m.UserID \in Vessels

IsStatic(m) == m.MessageType = "ShipStaticData" /\ m.UserID \in Vessels

\* the report has both coordinates and a speed of at most 80 knots
Sane(m) == m.Latitude # None /\ m.Longitude # None /\ (m.Sog = None \/ m.Sog <= 80)

\* the step handles a position report of a registered vessel that passes the filter
AcceptedStep == IsPosition(msg') /\ Key(msg') \in DOMAIN mmsi_registry /\ Sane(msg')

\* msg is a position report that was accepted (a registry entry is never removed)
AcceptedFrame == IsPosition(msg) /\ Key(msg) \in DOMAIN mmsi_registry /\ Sane(msg)

\* the step appends exactly one point to the track of k, and nothing else to it
AppendsTo(k) ==
    /\ k \in DOMAIN tracks'
    /\ Len(tracks'[k]) = Len(TrackOf(k)) + 1
    /\ SubSeq(tracks'[k], 1, Len(TrackOf(k))) = TrackOf(k)

LastPoint(k) == tracks[k][Len(tracks[k])]

----------------------------------------------------------------------------
TracksNonDecreasing ==
    \A k \in DOMAIN tracks : \A i, j \in 1..Len(tracks[k]) :
        i < j => tracks[k][i].trip_id <= tracks[k][j].trip_id

(* C1: for every vessel, the trip ids of its track points never decrease   *)
(* in append order, the track only grows at its end, and the trip id held  *)
(* in trip_state never decreases and is never dropped.                     *)
C1_TripIdMonotone ==
    [][ /\ TracksNonDecreasing'
        /\ \A k \in DOMAIN tracks :
              k \in DOMAIN tracks' /\ SubSeq(tracks'[k], 1, Len(tracks[k])) = tracks[k]
        /\ \A k \in DOMAIN trip_state :
              k \in DOMAIN trip_state' /\ trip_state'[k].trip_id >= trip_state[k].trip_id ]_vars

\* a track of three points whose trip ids are 1, 1, 2
C1_Witness ==
    \E k \in DOMAIN tracks :
        /\ Len(tracks[k]) = 3
        /\ tracks[k][1].trip_id = 1 /\ tracks[k][2].trip_id = 1 /\ tracks[k][3].trip_id = 2
        /\ trip_state[k].trip_id = 2

----------------------------------------------------------------------------
(* C2: an accepted report of a vessel without trip state gets trip id 1    *)
(* and is appended; with trip state, its trip id is the previous one plus  *)
(* 1 when at least 6 hours have passed since the previous accepted report  *)
(* or it lies at least 150 km from it, and the previous one otherwise.     *)
C2_TripIdRule ==
    [][ AcceptedStep =>
          LET k == Key(msg') IN
          /\ k \in DOMAIN trip_state'
          /\ IF k \notin DOMAIN trip_state
             THEN /\ trip_state'[k].trip_id = 1
                  /\ AppendsTo(k)
                  /\ tracks'[k][Len(tracks'[k])].trip_id = 1
             ELSE LET prev == trip_state[k]
                      elapsed == now - prev.last_ts
                      dist == Abs(msg'.Latitude - prev.last_lat)
                  IN  trip_state'[k].trip_id =
                          IF elapsed >= 6 * 3600 \/ dist >= 150 * 1000
                          THEN prev.trip_id + 1
                          ELSE prev.trip_id ]_vars

\* a second trip started by the six hours alone: the vessel has not moved
C2_Witness ==
    /\ AcceptedFrame
    /\ Len(TrackOf(Key(msg))) = 2
    /\ tracks[Key(msg)][1].trip_id = 1 /\ tracks[Key(msg)][2].trip_id = 2
    /\ tracks[Key(msg)][1].lat = tracks[Key(msg)][2].lat
    /\ tracks[Key(msg)][2].ts - tracks[Key(msg)][1].ts = 6 * 3600
    /\ trip_state[Key(msg)].trip_id = 2

----------------------------------------------------------------------------
(* C3: after an accepted report is handled, the vessel's last recorded     *)
(* point is less than 60 s older than the report and less than 200 m from  *)
(* it: a report at least 60 s or 200 m from the last recorded point was    *)
(* itself recorded.                                                        *)
C3_RecordedAgainstLastRecorded ==
    AcceptedFrame /\ out # <<>> =>
        LET k == Key(msg) IN
        /\ k \in DOMAIN tracks
        /\ now - LastPoint(k).ts < 60
        /\ Abs(msg.Latitude - LastPoint(k).lat) < 200

----------------------------------------------------------------------------
(* C4: every trip id from 1 to the one in trip_state is carried by a point *)
(* of the vessel's track, and the track carries no other: a report that    *)
(* was given a new trip id was appended in the same step.                  *)
C4_NewTripRecorded ==
    \A k \in DOMAIN trip_state :
        /\ k \in DOMAIN tracks
        /\ {tracks[k][i].trip_id : i \in 1..Len(tracks[k])} = 1..trip_state[k].trip_id

\* three trips, each on the track
C4_Witness ==
    \E k \in DOMAIN trip_state :
        /\ trip_state[k].trip_id = 3
        /\ Len(tracks[k]) = 3
        /\ tracks[k][3].trip_id = 3

----------------------------------------------------------------------------
(* C5: an accepted report less than 60 s after and less than 200 m from    *)
(* the previous accepted report of the vessel appends nothing; one at      *)
(* least 60 s after it appends a point, whatever the distance.             *)
C5_ConsecutiveReports ==
    [][ AcceptedStep /\ Key(msg') \in DOMAIN trip_state =>
          LET k == Key(msg')
              prev == trip_state[k]
              elapsed == now - prev.last_ts
              dist == Abs(msg'.Latitude - prev.last_lat)
          IN  /\ (elapsed < 60 /\ dist < 200) => tracks' = tracks
              /\ elapsed >= 60 =>
                    /\ AppendsTo(k)
                    /\ tracks'[k][Len(tracks'[k])].ts = now
                    /\ tracks'[k][Len(tracks'[k])].lat = msg'.Latitude ]_vars

\* reports at 0 s and 60 s from one place are both on the track, and a
\* third in the same second and place has appended nothing
C5_Witness ==
    /\ AcceptedFrame
    /\ out = <<Call("upsert", Key(msg))>>
    /\ now = 60
    /\ Len(TrackOf(Key(msg))) = 2
    /\ tracks[Key(msg)][1].ts = 0 /\ tracks[Key(msg)][2].ts = 60
    /\ tracks[Key(msg)][1].lat = tracks[Key(msg)][2].lat
    /\ msg.Latitude = tracks[Key(msg)][2].lat

----------------------------------------------------------------------------
\* the vessels all of whose identity frames carry a name of no fleet, or none
OnlyUnclassified ==
    {u \in Vessels : \A m \in StaticFrames :
        m.UserID = u => m.Name \in UnclassifiedRaw \cup {<<>>}}

(* C6: handling an identity frame whose name is of no fleet writes nothing *)
(* to Firestore and leaves the registry and all else as it was; a vessel   *)
(* that only ever sends such names is in no registry, document or track    *)
(* and each of its position reports is dropped.                            *)
C6_UnclassifiedNeverRegistered ==
    [][ /\ IsStatic(msg') /\ msg'.Name \in UnclassifiedRaw =>
              out' = <<>> /\ UNCHANGED <<mmsi_registry, trip_state, ships, tracks>>
        /\ \A u \in OnlyUnclassified :
              /\ Str(u) \notin (DOMAIN mmsi_registry') \cup (DOMAIN ships')
              /\ Str(u) \notin (DOMAIN trip_state') \cup (DOMAIN tracks')
              /\ IsPosition(msg') /\ msg'.UserID = u => out' = <<>> ]_vars

\* a name of no fleet was handled for a vessel while another is tracked
C6_Witness ==
    /\ IsStatic(msg) /\ msg.Name \in UnclassifiedRaw
    /\ msg.UserID \in OnlyUnclassified
    /\ Key(msg) \notin DOMAIN mmsi_registry
    /\ out = <<>>
    /\ DOMAIN tracks # {}

----------------------------------------------------------------------------
(* C7: handling a position report of a vessel without registry entry       *)
(* writes nothing and leaves the registry, trip_state, the ship documents  *)
(* and the tracks as they were.                                            *)
C7_UnknownVesselDropped ==
    [][ IsPosition(msg') /\ Key(msg') \notin DOMAIN mmsi_registry =>
          out' = <<>> /\ UNCHANGED <<mmsi_registry, trip_state, ships, tracks>> ]_vars

\* a report that passes the filter was dropped for want of a registry
\* entry, while another vessel is tracked
C7_Witness ==
    /\ IsPosition(msg) /\ Sane(msg)
    /\ Key(msg) \notin DOMAIN mmsi_registry
    /\ out = <<>>
    /\ DOMAIN tracks # {} /\ DOMAIN trip_state # {}

----------------------------------------------------------------------------
(* C8: a registry entry is never removed; an identity frame with a fleet   *)
(* name leaves the vessel registered; and every report of a registered     *)
(* vessel that passes the filter upserts the last-seen fields, the first   *)
(* of them also appending the vessel's first track point, with trip id 1.  *)
C8_RecoverableOnceIdentified ==
    [][ /\ \A k \in DOMAIN mmsi_registry : k \in DOMAIN mmsi_registry'
        /\ IsStatic(msg') /\ msg'.Name \in ClassifiedRaw => Key(msg') \in DOMAIN mmsi_registry'
        /\ AcceptedStep =>
              LET k == Key(msg') IN
              /\ Len(out') >= 1 /\ out'[1] = Call("upsert", k)
              /\ k \in DOMAIN ships'
              /\ ships'[k].last_seen = now
              /\ ships'[k].lat = msg'.Latitude /\ ships'[k].lon = msg'.Longitude
              /\ k \notin DOMAIN trip_state =>
                    /\ k \in DOMAIN tracks' /\ Len(tracks'[k]) = 1
                    /\ tracks'[k][1].trip_id = 1
                    /\ tracks'[k][1].ts = now
                    /\ tracks'[k][1].lat = msg'.Latitude ]_vars

\* the first report accepted for the vessel came after the clock had moved
\* and is the one point of its track
C8_Witness ==
    /\ AcceptedFrame
    /\ Len(TrackOf(Key(msg))) = 1
    /\ tracks[Key(msg)][1].trip_id = 1
    /\ tracks[Key(msg)][1].ts = now /\ now > 0
    /\ mmsi_registry[Key(msg)].name = MSC_OPERA
    /\ ships[Key(msg)].last_seen = now

----------------------------------------------------------------------------
(* C9: handling a position report of a registered vessel that is faster    *)
(* than 80 knots or lacks a coordinate writes nothing and leaves           *)
(* trip_state, the ship documents, the tracks and the registry unchanged.  *)
C9_ImplausibleRejected ==
    [][ IsPosition(msg') /\ Key(msg') \in DOMAIN mmsi_registry /\ ~Sane(msg') =>
          out' = <<>> /\ UNCHANGED <<mmsi_registry, trip_state, ships, tracks>> ]_vars

\* a report at 81 knots was handled for a vessel that has a trip state
C9_Witness ==
    /\ IsPosition(msg) /\ msg.Sog > 80
    /\ Key(msg) \in DOMAIN mmsi_registry
    /\ Key(msg) \in DOMAIN trip_state
    /\ out = <<>>

----------------------------------------------------------------------------
\* the record-point rule: the track is empty, or the report is at least
\* 60 s after or at least 200 m from the last recorded point
RecordRuleFires(k, m) ==
    \/ TrackOf(k) = <<>>
    \/ now - LastPoint(k).ts >= 60
    \/ Abs(m.Latitude - LastPoint(k).lat) >= 200

\* what an accepted report does whether or not it is appended
AcceptedEffects(k, m) ==
    /\ Len(out') >= 1 /\ out'[1] = Call("upsert", k)
    /\ k \in DOMAIN ships'
    /\ ships'[k].lat = m.Latitude /\ ships'[k].lon = m.Longitude
    /\ ships'[k].speed = m.Sog /\ ships'[k].course = m.Cog
    /\ ships'[k].last_seen = now
    /\ k \in DOMAIN trip_state'
    /\ trip_state'[k].last_ts = now
    /\ trip_state'[k].last_lat = m.Latitude /\ trip_state'[k].last_lon = m.Longitude
    /\ AppendsTo(k) \/ tracks' = tracks
    /\ AppendsTo(k) => tracks'[k][Len(tracks'[k])].trip_id = trip_state'[k].trip_id

(* C10: every accepted report upserts the last-seen fields and overwrites  *)
(* trip_state with its position, time and trip id, and it is appended to   *)
(* the track if and only if the record-point rule fires.                   *)
C10_AcceptedReportEffects ==
    [][ AcceptedStep =>
          /\ AcceptedEffects(Key(msg'), msg')
          /\ AppendsTo(Key(msg')) <=> RecordRuleFires(Key(msg'), msg') ]_vars

\* What on_message does have: the upsert and the overwrite are
\* unconditional, and the append goes by the two thresholds taken against
\* the previous accepted report.
AcceptedEffectsHold ==
    [][ AcceptedStep =>
          /\ AcceptedEffects(Key(msg'), msg')
          /\ AppendsTo(Key(msg')) <=>
                \/ Key(msg') \notin DOMAIN trip_state
                \/ now - trip_state[Key(msg')].last_ts >= 60
                \/ Abs(msg'.Latitude - trip_state[Key(msg')].last_lat) >= 200 ]_vars

----------------------------------------------------------------------------
\* the identity frame being handled names the identity the registry
\* already holds for its vessel
SameIdentityStep ==
    /\ IsStatic(msg')
    /\ Key(msg') \in DOMAIN mmsi_registry
    /\ mmsi_registry[Key(msg')].name = normalize_name(msg'.Name)
    /\ mmsi_registry[Key(msg')].line = find_line_for_ship(normalize_name(msg'.Name))

(* C11: in both variants an identity message whose normalized name and     *)
(* line equal the stored identity changes nothing and emits no upsert; an  *)
(* identity message emits an upsert only when the identity was absent or   *)
(* has changed.                                                            *)
C11_SameIdentityNoUpsert ==
    [][ /\ SameIdentityStep => out' = <<>> /\ UNCHANGED <<mmsi_registry, ships>>
        /\ IsStatic(msg') /\ out' # <<>> => ~SameIdentityStep ]_vars

\* TrackAPI.py keeps to it: the same property with the variant fixed.
SameIdentityNoUpsertTrackAPI ==
    [][ variant = "TrackAPI" /\ SameIdentityStep =>
            out' = <<>> /\ UNCHANGED <<mmsi_registry, ships>> ]_vars

----------------------------------------------------------------------------
\* the fields of a ship document that only a position report owns
LastSeenNames == {"lat", "lon", "speed", "course", "last_seen"}

(* C12: an identity message leaves the persisted last-seen fields (lat,    *)
(* lon, speed, course, last_seen) of every ship, the trip state and the    *)
(* tracks as they were.                                                    *)
C12_IdentityKeepsLastSeen ==
    [][ IsStatic(msg') =>
          /\ UNCHANGED <<trip_state, tracks>>
          /\ \A k \in DOMAIN ships :
                \A f \in LastSeenNames \cap DOMAIN ships[k] :
                    ships'[k][f] = ships[k][f] ]_vars

\* TrackAPI.py keeps to it: the same property with the variant fixed.
IdentityKeepsLastSeenTrackAPI ==
    [][ variant = "TrackAPI" /\ IsStatic(msg') =>
          /\ UNCHANGED <<trip_state, tracks>>
          /\ \A k \in DOMAIN ships :
                \A f \in LastSeenNames \cap DOMAIN ships[k] :
                    ships'[k][f] = ships[k][f] ]_vars

----------------------------------------------------------------------------
(* The supervised retry loop: run_sync_worker and run_worker_forever of    *)
(* TrackAPI.py, the module import and main of worker.py.  A connection run *)
(* (ws.run_forever) ends in one of three ways: the connection could not be *)
(* made ("error": on_error and on_close are called and the run returns),   *)
(* an open connection was closed ("closed"), or the run raised             *)
(* ("exception").  KeyboardInterrupt is the shutdown of the process and is *)
(* not a step of the model.                                                *)

\* reconnects and starts are counted up to these; a count at its bound
\* stands for "that many or more"
MaxReconnects == 6
MaxStarts == 3

BackoffStart == 2
BackoffCap == 30
RetryDelay == 5

Outcomes == {"error", "closed", "exception"}

Min(a, b) == IF a <= b THEN a ELSE b

\* if not api_key
key_missing_never(key) == FALSE

key_missing(key) == key \in {KeyUnset, ""}

\* except Exception as e: every way the run ends is survived
caught_but_exception(outcome) == outcome # "exception"

caught(outcome) == outcome \in Outcomes

\* backoff = min(backoff * 2, 30)
next_backoff_uncapped(b) == b * 2

next_backoff(b) == Min(b * 2, BackoffCap)

\* the start of the worker: the import of worker.py up to main's first
\* line, or a call of run_sync_worker up to its loop
Startup ==
    /\ pc = "start"
    /\ starts' = Min(starts + 1, MaxStarts)
    /\ IF key_missing(api_key)
         THEN /\ pc' = IF variant = "TrackAPI" THEN "crashed" ELSE "exited"
              /\ UNCHANGED backoff
         ELSE /\ pc' = "connecting"
              /\ backoff' = BackoffStart
    /\ reconnects' = 0
    /\ last_run' = "none"
    /\ was_open' = FALSE
    /\ UNCHANGED <<api_key, slept>>
    /\ UNCHANGED beside_loop

\* run_worker_forever: log the crash, sleep 5 s, call run_sync_worker again
RetryWorker ==
    /\ pc = "crashed"
    /\ slept' = RetryDelay
    /\ pc' = "start"
    /\ UNCHANGED <<api_key, backoff, reconnects, last_run, was_open, starts>>
    /\ UNCHANGED beside_loop

\* the connection is made and on_open subscribes
Opened ==
    /\ pc = "connecting"
    /\ pc' = "open"
    /\ was_open' = TRUE
    /\ UNCHANGED <<api_key, backoff, slept, reconnects, last_run, starts>>
    /\ UNCHANGED beside_loop

\* the run ends; the loop logs and goes to sleep for backoff seconds
RunEnds(outcome) ==
    /\ outcome = "error" => pc = "connecting"
    /\ outcome = "closed" => pc = "open"
    /\ outcome = "exception" => pc \in {"connecting", "open"}
    /\ last_run' = outcome
    /\ IF caught(outcome)
         THEN /\ pc' = "sleeping"
              /\ slept' = backoff
              /\ reconnects' = Min(reconnects + 1, MaxReconnects)
         ELSE /\ pc' = "exited"
              /\ UNCHANGED <<slept, reconnects>>
    /\ UNCHANGED <<api_key, backoff, was_open, starts>>
    /\ UNCHANGED beside_loop

\* the sleep returns; the backoff is doubled and the loop connects again
Wake ==
    /\ pc = "sleeping"
    /\ backoff' = next_backoff(backoff)
    /\ pc' = "connecting"
    /\ was_open' = FALSE
    /\ UNCHANGED <<api_key, slept, reconnects, last_run, starts>>
    /\ UNCHANGED beside_loop

LoopInit ==
    /\ variant \in {"TrackAPI", "worker"}
    /\ HandlersAtRest
    /\ api_key \in {KeyUnset, "", "k3y"}
    /\ LoopAtRest
    /\ ports_in = <<>>
    /\ DetectAtRest
    /\ ScanAtRest
    /\ CallsAtRest
    /\ ProcessAtRest

LoopNext ==
    \/ Startup
    \/ RetryWorker
    \/ Opened
    \/ \E outcome \in Outcomes : RunEnds(outcome)
    \/ Wake

SpecLoop == LoopInit /\ [][LoopNext]_all_vars

\* The steps the program takes by itself are taken: a sleep returns and the
\* statement after it runs.  Nothing is assumed of the network: a
\* connection may stay open, or an attempt pending, for ever.
FairSpecLoop ==
    /\ SpecLoop
    /\ WF_all_vars(Startup)
    /\ WF_all_vars(RetryWorker)
    /\ WF_all_vars(Wake)

----------------------------------------------------------------------------
RECURSIVE Pow2(_)
Pow2(n) == IF n = 0 THEN 1 ELSE 2 * Pow2(n - 1)

(* C13: the delay slept before the n-th reconnect is 2 s for the first and *)
(* doubles up to the ceiling of 30 s (2, 4, 8, 16, 30, 30, ...), and the   *)
(* backoff is within [2, 30] in every state of the loop.                   *)
C13_BackoffSchedule ==
    /\ backoff # None => 2 <= backoff /\ backoff <= 30
    /\ pc = "sleeping" => slept = Min(Pow2(reconnects), 30)

C13_Witness ==
    pc = "sleeping" /\ reconnects >= 5 /\ slept = 30 /\ backoff = 30

----------------------------------------------------------------------------
(* C14: after a connection that was made successfully, the backoff is back *)
(* at its initial value: the delay slept after the disconnect of a         *)
(* connection that had opened is 2 s, whatever failures came before.       *)
C14_BackoffResetAfterOpen ==
    pc = "sleeping" /\ was_open => slept = 2

\* What the loop does have: the delay goes by the number of reconnects
\* alone, whether or not the connection before it had opened.
BackoffNeverReset ==
    [][ pc' = "sleeping" /\ pc # "sleeping" =>
            slept' = Min(Pow2(reconnects'), 30) ]_all_vars

----------------------------------------------------------------------------
(* C15: the retry loop never gives up.  After every way a connection run   *)
(* can end (error, close, exception) the loop sleeps and then starts a new *)
(* connection attempt, and with a key mounted the entry point is again and *)
(* again attempting or holding a connection: it has no state in which it   *)
(* has stopped.                                                            *)
C15_NeverGivesUp ==
    /\ \A outcome \in Outcomes :
          (last_run = outcome /\ pc \notin {"connecting", "open"})
              ~> (pc = "connecting")
    /\ api_key = "k3y" => []<>(pc \in {"connecting", "open"})

C15_Witness ==
    /\ pc = "connecting" /\ last_run = "exception"
    /\ reconnects = MaxReconnects /\ slept = 30

----------------------------------------------------------------------------
AbsentKey == api_key \in {KeyUnset, ""}

(* C16 as stated: with the credential absent every entry point fails at    *)
(* startup for good: the worker is started once and no more, and no        *)
(* connection is attempted.                                                *)
C16_MissingKeyFatal ==
    AbsentKey => starts <= 1 /\ pc \in {"start", "crashed", "exited"}

(* C16 as amended: with the credential absent no entry point ever attempts *)
(* a connection; worker.py dies at import and is not started again, while  *)
(* TrackAPI.py's run_worker_forever sleeps 5 s after the failed start and  *)
(* starts the worker again.                                                *)
C16_MissingKeyNeverConnects ==
    AbsentKey =>
        /\ pc \in {"start", "crashed", "exited"}
        /\ backoff = None /\ ~was_open /\ last_run = "none"
        /\ variant = "worker" => starts <= 1 /\ pc # "crashed" /\ slept = None
        /\ variant = "TrackAPI" => pc # "exited" /\ slept \in {None, 5}
        /\ variant = "TrackAPI" /\ starts >= 2 => slept = 5

C16_Witness ==
    AbsentKey /\ variant = "TrackAPI" /\ starts >= 2 /\ pc = "crashed" /\ slept = 5

C16_WitnessWorker ==
    AbsentKey /\ variant = "worker" /\ starts = 1 /\ pc = "exited"

----------------------------------------------------------------------------
(* voyage_utils.py.  A point is a dict with ts, lat, lon, speed and        *)
(* trip_id.  ts is the ISO string of an instant, here the instant in       *)
(* seconds, or None where the field is missing, or BadTs for a string      *)
(* fromisoformat rejects.  Positions are on one meridian as above, so a    *)
(* distance is a difference of latitudes; distances are in metres, speeds  *)
(* in tenths of a knot, dwell times in seconds.                            *)

\* the defaults of detect_port_stops: 6.0 km, 1.2 kn, 30 min
near_km == 6000
slow_kn == 12
min_dwell_min == 30

\* best_d = 1e9: farther than any port of the model
BEST_D_START == 1000000000

Port(name, country, lat) == [name |-> name, country |-> country, lat |-> lat, lon |-> 0]
PortA == Port("Miami", "US", 0)
PortB == Port("Nassau", "BS", 10000)

Pt(ts, lat, speed, trip_id) ==
    [ts |-> ts, lat |-> lat, lon |-> 0, speed |-> speed, trip_id |-> trip_id]

to_float(x, default) == IF x = None THEN default ELSE x

\* an unparseable string taken for the epoch
parse_ts_lenient(ts) == IF ts = None THEN None ELSE IF ts = BadTs THEN 0 ELSE ts

parse_ts(ts) == IF ts = None \/ ts = BadTs THEN None ELSE ts

\* A point off the meridian lies on the equator with the point it is
\* measured from, so that one of the two differences is 0.
haversine_km(a, b) == Abs(b[1] - a[1]) + Abs(b[2] - a[2])

\* round(), which rounds a half to the even neighbour, of n / d for n >= 0
round_div(n, d) ==
    LET q == n \div d
        r == n % d
    IN  IF 2 * r < d THEN q
        ELSE IF 2 * r > d THEN q + 1
        ELSE IF q % 2 = 0 THEN q ELSE q + 1

RECURSIVE LastTripFrom(_, _, _)
LastTripFrom(points, i, last_trip) ==
    IF i > Len(points) THEN last_trip
    ELSE LastTripFrom(points, i + 1,
            IF points[i].trip_id # None THEN points[i].trip_id ELSE last_trip)

\* every point, whatever the trip
get_latest_trip_all(points) == points

get_latest_trip(points) ==
    IF points = <<>> THEN <<>>
    ELSE LET last_trip == LastTripFrom(points, 1, None)
         IN  IF last_trip = None THEN points
             ELSE SelectSeq(points, LAMBDA p : p.trip_id = last_trip)

RECURSIVE NearestFrom(_, _, _, _, _, _)
NearestFrom(ports, i, best, best_d, lat, lon) ==
    IF i > Len(ports) THEN [port |-> best, dkm |-> best_d]
    ELSE LET d == haversine_km(<<lat, lon>>, <<ports[i].lat, ports[i].lon>>)
         IN  IF d < best_d THEN NearestFrom(ports, i + 1, ports[i], d, lat, lon)
             ELSE NearestFrom(ports, i + 1, best, best_d, lat, lon)

nearest_port(ports, lat, lon) == NearestFrom(ports, 1, NoneRec, BEST_D_START, lat, lon)

\* (end_ts - start_ts).total_seconds(); dwell is this over 60.0
dwell_seconds(current) == current.end_ts - current.start_ts

\* the dict appended to stops
port_stop(current) ==
    [name |-> current.port.name,
     country |-> current.port.country,
     lat |-> current.port.lat,
     lon |-> current.port.lon,
     arrived_at |-> current.start_ts,
     departed_at |-> current.end_ts,
     dwell_minutes |-> round_div(dwell_seconds(current), 60),
     min_distance_km |-> 10 * round_div(current.min_dist_km, 10)]

\* every candidate emitted, however short
finalize_any_dwell(stops, current) ==
    IF current # NoneRec THEN Append(stops, port_stop(current)) ELSE stops

\* "finalize current": the block the function repeats three times
finalize(stops, current) ==
    IF current # NoneRec /\ dwell_seconds(current) >= min_dwell_min * 60
      THEN Append(stops, port_stop(current))
      ELSE stops

\* the first distance kept
extend_keeps_first_dist(current, ts, dkm) == [current EXCEPT !.end_ts = ts]

extend(current, ts, dkm) ==
    [current EXCEPT !.end_ts = ts, !.min_dist_km = Min(@, dkm)]

\* the body of the loop: the locals after the point p, from the locals st
\* before it
scan_point(st, p, ports) ==
    LET ts == parse_ts(p.ts) IN
    IF ts = None THEN st
    ELSE
      LET near == nearest_port(ports, p.lat, p.lon)
          closed == [current |-> NoneRec, stops |-> finalize(st.stops, st.current)]
      IN
      IF near.port = NoneRec \/ near.dkm > near_km THEN closed
      ELSE IF ~(to_float(p.speed, 0) <= slow_kn) THEN closed
      ELSE IF st.current # NoneRec /\ st.current.port.name = near.port.name
        THEN [current |-> extend(st.current, ts, near.dkm), stops |-> st.stops]
        ELSE [current |-> [port |-> near.port, start_ts |-> ts, end_ts |-> ts,
                           min_dist_km |-> near.dkm],
              stops |-> st.stops]

RECURSIVE ScanFrom(_, _, _, _)
ScanFrom(pts, i, st, ports) ==
    IF i > Len(pts) THEN st
    ELSE ScanFrom(pts, i + 1, scan_point(st, pts[i], ports), ports)

detect_port_stops(points, ports) ==
    IF points = <<>> \/ ports = <<>> THEN <<>>
    ELSE LET st == ScanFrom(get_latest_trip(points), 1,
                            [current |-> NoneRec, stops |-> <<>>], ports)
         IN  finalize(st.stops, st.current)

----------------------------------------------------------------------------
(* The loop of detect_port_stops, one point at a time, over the points of  *)
(* one trip in the order of their timestamps.                              *)

ScanTimes == {0, 900, 1800, 1830, 3690}
ScanLats == {0, 1234, 5000, 9000, 16000, 17000}
ScanSpeeds == {None, 12, 13}
PortTables == {<<PortA, PortB>>, <<PortB, PortA>>, <<PortA>>}

ScanPoints ==
    {Pt(ts, lat, speed, 1) :
        ts \in ScanTimes \cup {None, BadTs}, lat \in ScanLats, speed \in ScanSpeeds}

HasTime(p) == p.ts \notin {None, BadTs}

\* for p in pts: the next point, not earlier than the ones before it
ScanPoint(p) ==
    /\ scan_pc = "scanning"
    /\ HasTime(p) => p.ts >= scanned
    /\ scan' = scan_point(scan, p, ports_in)
    /\ scanned' = IF HasTime(p) THEN p.ts ELSE scanned
    /\ UNCHANGED <<scan_pc, ports_in>>
    /\ UNCHANGED beside_scan

\* "finalize if ended in a stop" and return stops
ScanReturn ==
    /\ scan_pc = "scanning"
    /\ scan' = [scan EXCEPT !.stops = finalize(scan.stops, scan.current)]
    /\ scan_pc' = "returned"
    /\ UNCHANGED <<scanned, ports_in>>
    /\ UNCHANGED beside_scan

ScanInit ==
    /\ variant = "TrackAPI"
    /\ HandlersAtRest
    /\ api_key = "k3y"
    /\ LoopAtRest
    /\ DetectAtRest
    /\ CallsAtRest
    /\ ProcessAtRest
    /\ ports_in \in PortTables
    /\ scan = [current |-> NoneRec, stops |-> <<>>]
    /\ scanned = None
    /\ scan_pc = "scanning"

ScanNext ==
    \/ \E p \in ScanPoints : ScanPoint(p)
    \/ ScanReturn

SpecScan == ScanInit /\ [][ScanNext]_all_vars

----------------------------------------------------------------------------
(* C17: for points in the order of their timestamps the list returned is   *)
(* in chronological order and non-overlapping (no stop departs later than  *)
(* the next one arrives), every stop has arrived_at <= departed_at, and    *)
(* every stop dwelt at least 30 minutes.                                   *)
C17_StopsOrderedAndLongEnough ==
    scan_pc = "returned" =>
        /\ \A i \in 1..Len(scan.stops) :
              /\ scan.stops[i].arrived_at <= scan.stops[i].departed_at
              /\ scan.stops[i].departed_at - scan.stops[i].arrived_at >= 30 * 60
              /\ scan.stops[i].dwell_minutes >= 30
        /\ \A i \in 1..(Len(scan.stops) - 1) :
              /\ scan.stops[i].arrived_at <= scan.stops[i + 1].arrived_at
              /\ scan.stops[i].departed_at <= scan.stops[i + 1].arrived_at

C17_Witness ==
    /\ scan_pc = "returned"
    /\ Len(scan.stops) = 2
    /\ scan.stops[1].name # scan.stops[2].name
    /\ scan.stops[1].departed_at = scan.stops[2].arrived_at

----------------------------------------------------------------------------
\* a step of the loop that replaces an open candidate by one at another
\* port: the point taken is slow and nearest to a port within 6 km that is
\* not the candidate's
SwitchStep ==
    /\ scan_pc = "scanning" /\ scan_pc' = "scanning"
    /\ scan.current # NoneRec /\ scan'.current # NoneRec
    /\ scan'.current.port.name # scan.current.port.name

(* C18: when a slow near-port point is nearest to another port than the    *)
(* open candidate's, the candidate is finalized like everywhere else       *)
(* before the new one is opened: it is emitted as a stop if it dwelt at    *)
(* least 30 minutes and discarded otherwise.                               *)
C18_SwitchFinalizesCandidate ==
    [][ SwitchStep =>
          IF scan.current.end_ts - scan.current.start_ts >= 30 * 60
            THEN /\ Len(scan'.stops) = Len(scan.stops) + 1
                 /\ SubSeq(scan'.stops, 1, Len(scan.stops)) = scan.stops
                 /\ scan'.stops[Len(scan'.stops)].name = scan.current.port.name
                 /\ scan'.stops[Len(scan'.stops)].arrived_at = scan.current.start_ts
                 /\ scan'.stops[Len(scan'.stops)].departed_at = scan.current.end_ts
            ELSE scan'.stops = scan.stops ]_all_vars

\* What the loop does have: the switch emits nothing, however long the
\* candidate dwelt.
SwitchDropsCandidate ==
    [][ SwitchStep => scan'.stops = scan.stops ]_all_vars

----------------------------------------------------------------------------
(* A call of detect_port_stops as a whole: the arguments are drawn, the    *)
(* function returns.                                                       *)

MaxPoints == 3

DetectPoints ==
    \* slow, at port A or 1234 m from it, trip 1
    {Pt(ts, lat, 12, 1) : ts \in {0, 1200, 1800}, lat \in {0, 1234}}
    \cup
    {Pt(1800, 0, 12, 2),            \* the same of trip 2
     Pt(0, 0, 12, None),            \* the same with no trip id
     Pt(1800, 9000, 12, 1),         \* slow at port B
     Pt(1200, 17000, 12, 1),        \* slow, far from every port
     Pt(1200, 0, 13, 1),            \* at port A, not slow
     Pt(None, 0, 12, 1),            \* no timestamp
     Pt(BadTs, 17000, 13, 1),       \* a timestamp that does not parse,
     Pt(BadTs, 17000, 13, 2)}       \* far and not slow

DetectInputs == UNION {[1..n -> DetectPoints] : n \in 0..MaxPoints}
DetectTables == {<<PortA, PortB>>, <<>>}

Detect ==
    /\ det_pc = "called"
    /\ result' = detect_port_stops(points_in, ports_in)
    /\ det_pc' = "returned"
    /\ UNCHANGED <<points_in, ports_in>>
    /\ UNCHANGED beside_detect

DetectInit ==
    /\ variant = "TrackAPI"
    /\ HandlersAtRest
    /\ api_key = "k3y"
    /\ LoopAtRest
    /\ ScanAtRest
    /\ CallsAtRest
    /\ ProcessAtRest
    /\ ports_in \in DetectTables
    /\ points_in \in DetectInputs
    /\ result = <<>>
    /\ det_pc = "called"

DetectNext == Detect

SpecDetect == DetectInit /\ [][DetectNext]_all_vars

----------------------------------------------------------------------------
\* the points are one trip and one uninterrupted run at port P: each has a
\* timestamp, a speed of at most 1.2 kn and P, within 6 km, as its nearest
\* port
RunAt(points, ports, P) ==
    /\ points # <<>>
    /\ \A i \in 1..Len(points) :
          /\ HasTime(points[i])
          /\ points[i].trip_id = points[1].trip_id
          /\ points[i].speed # None /\ points[i].speed <= 12
          /\ Abs(points[i].lat - P.lat) <= 6000
          /\ \A j \in 1..Len(ports) :
                ports[j] # P => Abs(points[i].lat - P.lat) < Abs(points[i].lat - ports[j].lat)

\* D, in seconds
Span(points) == points[Len(points)].ts - points[1].ts

MinDistance(points, P) ==
    CHOOSE d \in {Abs(points[i].lat - P.lat) : i \in 1..Len(points)} :
        \A i \in 1..Len(points) : d <= Abs(points[i].lat - P.lat)

\* the stop of a run but for its min_distance_km
RunStop(stop, points, P) ==
    /\ stop.name = P.name /\ stop.country = P.country
    /\ stop.lat = P.lat /\ stop.lon = P.lon
    /\ stop.arrived_at = points[1].ts
    /\ stop.departed_at = points[Len(points)].ts
    /\ 2 * Abs(60 * stop.dwell_minutes - Span(points)) <= 60

(* C19 as stated: a trip that is one uninterrupted slow run at port P      *)
(* spanning D minutes gives exactly one stop when D >= 30, for P, with     *)
(* dwell_minutes = D rounded and min_distance_km = the smallest distance   *)
(* observed, and no stop when D < 30.                                      *)
C19_RunGivesExactStop ==
    det_pc = "returned" =>
        \A j \in 1..Len(ports_in) :
            RunAt(points_in, ports_in, ports_in[j]) =>
                IF Span(points_in) >= 30 * 60
                  THEN /\ Len(result) = 1
                       /\ RunStop(result[1], points_in, ports_in[j])
                       /\ result[1].min_distance_km = MinDistance(points_in, ports_in[j])
                  ELSE result = <<>>

(* C19 as amended: the same, with min_distance_km = the smallest distance  *)
(* observed rounded to two decimals of a kilometre.                        *)
C19_RunGivesRoundedStop ==
    det_pc = "returned" =>
        \A j \in 1..Len(ports_in) :
            RunAt(points_in, ports_in, ports_in[j]) =>
                IF Span(points_in) >= 30 * 60
                  THEN /\ Len(result) = 1
                       /\ RunStop(result[1], points_in, ports_in[j])
                       /\ result[1].min_distance_km % 10 = 0
                       /\ 2 * Abs(result[1].min_distance_km
                                    - MinDistance(points_in, ports_in[j])) <= 10
                  ELSE result = <<>>

C19_Witness ==
    /\ det_pc = "returned"
    /\ Len(points_in) = 3
    /\ RunAt(points_in, ports_in, PortA)
    /\ Len(result) = 1
    /\ result[1].dwell_minutes = 30
    /\ points_in[1].lat = 0 /\ points_in[2].lat = 1234
    /\ result[1].min_distance_km = 0

C19_WitnessRounded ==
    /\ det_pc = "returned"
    /\ RunAt(points_in, ports_in, PortA)
    /\ Len(result) = 1
    /\ MinDistance(points_in, PortA) = 1234
    /\ result[1].min_distance_km = 1230

C19_WitnessShort ==
    /\ det_pc = "returned"
    /\ Len(points_in) = 2
    /\ RunAt(points_in, ports_in, PortA)
    /\ Span(points_in) = 20 * 60
    /\ result = <<>>

----------------------------------------------------------------------------
RemoveBad(points) == SelectSeq(points, HasTime)

(* C20 as stated: points whose timestamp is missing or does not parse are  *)
(* dropped: for every input the result is that of the detector on the same *)
(* sequence with those points removed.                                     *)
C20_BadTimestampsRemovable ==
    det_pc = "returned" =>
        result = detect_port_stops(RemoveBad(points_in), ports_in)

(* C20 as amended: the loop drops such points without touching the open    *)
(* candidate, but they are still counted when the latest trip is chosen:   *)
(* for every input the result is that of the detector on the points of the *)
(* latest trip of the whole sequence with those points removed.            *)
C20_BadTimestampsSkippedInTrip ==
    det_pc = "returned" =>
        result = detect_port_stops(RemoveBad(get_latest_trip(points_in)), ports_in)

\* a point that is far, fast and without a timestamp between the two
\* points of a stop
C20_Witness ==
    /\ det_pc = "returned"
    /\ Len(points_in) = 3
    /\ ~HasTime(points_in[2]) /\ points_in[2].lat = 17000 /\ points_in[2].speed = 13
    /\ Len(result) = 1
    /\ result[1].arrived_at = points_in[1].ts
    /\ result[1].departed_at = points_in[3].ts

----------------------------------------------------------------------------
\* the trip id of the last point that carries one, None if no point does
LatestTripId(points) ==
    LET carrying == {i \in 1..Len(points) : points[i].trip_id # None}
    IN  IF carrying = {} THEN None
        ELSE points[CHOOSE i \in carrying : \A j \in carrying : j <= i].trip_id

\* the points of the latest trip; every point where no point carries a trip id
OfLatestTrip(points) ==
    IF LatestTripId(points) = None THEN points
    ELSE SelectSeq(points, LAMBDA p : p.trip_id = LatestTripId(points))

(* C21: detect_port_stops considers only the points of the most recent    *)
(* trip id, the trip id of the last point that carries one: the result is  *)
(* the result for those points alone, and every stop arrives and departs   *)
(* at the time of one of them.                                             *)
C21_OnlyLatestTrip ==
    det_pc = "returned" =>
        /\ result = detect_port_stops(OfLatestTrip(points_in), ports_in)
        /\ \A s \in 1..Len(result) :
              \E i, j \in 1..Len(OfLatestTrip(points_in)) :
                  /\ i <= j
                  /\ result[s].arrived_at = OfLatestTrip(points_in)[i].ts
                  /\ result[s].departed_at = OfLatestTrip(points_in)[j].ts

\* two points of trip 1 that would make a stop, the last point of trip 2
C21_Witness ==
    /\ det_pc = "returned"
    /\ ports_in # <<>>
    /\ Len(points_in) = 3
    /\ points_in[1] = Pt(0, 0, 12, 1)
    /\ points_in[2] = Pt(1800, 0, 12, 1)
    /\ points_in[3].trip_id = 2
    /\ result = <<>>

----------------------------------------------------------------------------
(* The predictor of voyage_utils.py.  The vessel and the ports lie on the  *)
(* meridian or on the equator, where a bearing is 0, 90, 180 or 270        *)
(* degrees; courses are whole degrees.  Scores are exact fractions: a      *)
(* heading score is in 180ths, a distance score is over dmax, and the      *)
(* combined scores of one call are numerators over one denominator.        *)

\* predict_next_port's max_km = 900.0, in metres
max_km == 900000
\* heading_weight = 0.65 and distance_weight = 0.35, in twentieths
heading_weight == 13
distance_weight == 7

\* d.get(k)
Field(d, k) == IF k \in DOMAIN d THEN d[k] ELSE None

Max(a, b) == IF a >= b THEN a ELSE b

RECURSIVE GCD(_, _)
GCD(a, b) == IF b = 0 THEN a ELSE GCD(b, a % b)

\* initial bearing from a to b in degrees [0, 360); atan2(0, 0) is 0
bearing_deg(a, b) ==
    IF b[2] = a[2] THEN (IF b[1] >= a[1] THEN 0 ELSE 180)
    ELSE IF b[2] > a[2] THEN 90 ELSE 270

angle_diff(a, b) ==
    LET d == Abs((a - b) % 360) IN Min(d, 360 - d)

\* for p in ports: if dkm <= max_km: candidates.append((p, dkm))
RECURSIVE CandidatesFrom(_, _, _, _)
CandidatesFrom(ports, i, lat, lon) ==
    IF i > Len(ports) THEN <<>>
    ELSE LET dkm == haversine_km(<<lat, lon>>, <<ports[i].lat, ports[i].lon>>)
             rest == CandidatesFrom(ports, i + 1, lat, lon)
         IN  IF dkm <= max_km THEN <<[port |-> ports[i], dkm |-> dkm]>> \o rest
             ELSE rest

RECURSIVE MaxDkmFrom(_, _)
MaxDkmFrom(candidates, i) ==
    IF i > Len(candidates) THEN 0
    ELSE Max(candidates[i].dkm, MaxDkmFrom(candidates, i + 1))

\* max(d for _, d in candidates), without the "or 1.0"
dmax_of_plain(candidates) == MaxDkmFrom(candidates, 1)

\* max(d for _, d in candidates) or 1.0
dmax_of(candidates) ==
    IF MaxDkmFrom(candidates, 1) = 0 THEN 1 ELSE MaxDkmFrom(candidates, 1)

\* the largest length all the distances are multiples of: fractions over
\* dmax are written over dmax in this unit
RECURSIVE UnitFrom(_, _)
UnitFrom(candidates, i) ==
    IF i > Len(candidates) THEN 0
    ELSE GCD(candidates[i].dkm, UnitFrom(candidates, i + 1))

unit_of(candidates) ==
    IF UnitFrom(candidates, 1) = 0 THEN 1 ELSE UnitFrom(candidates, 1)

\* dkm / dmax for the distance score: farther is better
dist_score_farther_better(dkm, dmax, unit) ==
    [num |-> dkm \div unit, den |-> dmax \div unit]

\* dist_score = 1.0 - (dkm / dmax), as a fraction
dist_score(dkm, dmax, unit) ==
    [num |-> (dmax - dkm) \div unit, den |-> dmax \div unit]

\* head_score = max(0.0, 1.0 - (diff / 180.0)), in 180ths
head_score(diff) == Max(0, 180 - diff)

\* the distance score alone, whether the course is known or not
combined_score_distance_only(course, diff, dist) == 20 * 180 * dist.num

\* score, as the numerator over 20 * 180 * dist.den
combined_score(course, diff, dist) ==
    IF course # None
      THEN heading_weight * head_score(diff) * dist.den + distance_weight * 180 * dist.num
      ELSE 20 * 180 * dist.num

\* what the second loop computes for each candidate
Scored(candidates, lat, lon, course) ==
    LET dmax == dmax_of(candidates)
        unit == unit_of(candidates)
    IN  [i \in 1..Len(candidates) |->
            LET c == candidates[i]
                diff == IF course # None
                          THEN angle_diff(course, bearing_deg(<<lat, lon>>, <<c.port.lat, c.port.lon>>))
                          ELSE None
                dist == dist_score(c.dkm, dmax, unit)
            IN  [port |-> c.port, dkm |-> c.dkm, hdiff |-> diff, dist |-> dist,
                 score |-> combined_score(course, diff, dist),
                 den |-> 20 * 180 * dist.den]]

\* best_score = -1e9: below every score, which are 0 at least
best_score_start == 0 - 1

\* if score >= best_score: the last of equal candidates wins
RECURSIVE BestFromLast(_, _, _, _)
BestFromLast(sc, i, best, best_score) ==
    IF i > Len(sc) THEN best
    ELSE IF sc[i].score >= best_score THEN BestFromLast(sc, i + 1, i, sc[i].score)
         ELSE BestFromLast(sc, i + 1, best, best_score)

\* if score > best_score: best = p; the index of best in candidates
RECURSIVE BestFrom(_, _, _, _)
BestFrom(sc, i, best, best_score) ==
    IF i > Len(sc) THEN best
    ELSE IF sc[i].score > best_score THEN BestFrom(sc, i + 1, i, sc[i].score)
         ELSE BestFrom(sc, i + 1, best, best_score)

\* the candidates of a call with their scores, <<>> where the function
\* returns before its loops
predict_scores(last_point, ports) ==
    IF last_point = NoneRec \/ ports = <<>> THEN <<>>
    ELSE LET lat == to_float(Field(last_point, "lat"), None)
             lon == to_float(Field(last_point, "lon"), None)
         IN  IF lat = None \/ lon = None THEN <<>>
             ELSE Scored(CandidatesFrom(ports, 1, lat, lon), lat, lon,
                         to_float(Field(last_point, "course"), None))

predict_next_port(last_point, ports) ==
    LET sc == predict_scores(last_point, ports) IN
    IF sc = <<>> THEN NoneRec
    ELSE LET best == sc[BestFrom(sc, 1, 0, best_score_start)]
         IN  [name |-> best.port.name,
              country |-> best.port.country,
              lat |-> best.port.lat,
              lon |-> best.port.lon,
              distance_km |-> 100 * round_div(best.dkm, 100),
              heading_diff_deg |-> best.hdiff,
              score |-> round_div(1000 * best.score, best.den)]

----------------------------------------------------------------------------
(* A call of one of the functions with arguments drawn from small sets.    *)

MaxPorts == 3

PortAt(name, lat, lon) == [name |-> name, country |-> "BS", lat |-> lat, lon |-> lon]
East100 == PortAt("East 100", 0, 100000)
North50 == PortAt("North 50", 50000, 0)
North100 == PortAt("North 100", 100000, 0)
West900 == PortAt("West 900", 0, 0 - 900000)
South950 == PortAt("South 950", 0 - 950000, 0)
Here == PortAt("Here", 0, 0)
PredictPorts == {East100, North50, North100, West900, South950, Here}

\* the tables of up to MaxPorts different ports
PredictTables ==
    {t \in UNION {[1..n -> PredictPorts] : n \in 0..MaxPorts} :
        \A i, j \in 1..Len(t) : i # j => t[i] # t[j]}

Ship(lat, lon, course) == [lat |-> lat, lon |-> lon, course |-> course]
PredictPoints ==
    {Ship(0, 0, course) : course \in {None, 0, 90, 225}}
    \cup {NoneRec, Ship(None, 0, 90), Ship(0, None, 90), [course |-> 90]}

PredictCalls ==
    {[fn |-> "predict_next_port", last_point |-> p, ports |-> t] :
        p \in PredictPoints, t \in PredictTables}

Predict ==
    /\ call_pc = "called"
    /\ call.fn = "predict_next_port"
    /\ ret' = predict_next_port(call.last_point, call.ports)
    /\ scored' = predict_scores(call.last_point, call.ports)
    /\ call_pc' = "returned"
    /\ UNCHANGED call
    /\ UNCHANGED beside_calls

----------------------------------------------------------------------------
(* estimate_eta_hours and confidence_score.  Distances are in metres and   *)
(* speeds in tenths of a knot, so that distance_km / (s * 1.852) hours is  *)
(* the fraction 10 * distance / (1852 * s); a confidence is in hundredths. *)

\* a value float() cannot convert
NotNumber == 0 - 3

eta_floor_kn == 20
kmh_per_kn_milli == 1852

\* speed_kn or 0.0
or_zero(speed_kn) == IF speed_kn = None THEN 0 ELSE speed_kn

\* estimate_eta_hours giving an ETA at the floor speed too
estimate_eta_hours_at_floor(distance_km, speed_kn) ==
    IF distance_km = None THEN NoneRec
    ELSE IF or_zero(speed_kn) = NotNumber THEN NoneRec
    ELSE IF or_zero(speed_kn) < eta_floor_kn THEN NoneRec
    ELSE IF distance_km = NotNumber THEN NoneRec
    ELSE [num |-> 10 * distance_km, den |-> kmh_per_kn_milli * or_zero(speed_kn)]

\* the ETA in hours as the fraction num / den, NoneRec for None; an
\* exception of float() or of the division is caught and gives None
estimate_eta_hours(distance_km, speed_kn) ==
    IF distance_km = None THEN NoneRec
    ELSE IF or_zero(speed_kn) = NotNumber THEN NoneRec
    ELSE IF or_zero(speed_kn) <= eta_floor_kn THEN NoneRec
    ELSE IF distance_km = NotNumber THEN NoneRec
    ELSE [num |-> 10 * distance_km, den |-> kmh_per_kn_milli * or_zero(speed_kn)]

\* round(n / d, digits) of a float: a value half way between two neighbours
\* goes to the one the binary representation of the float is nearer to,
\* which is either of them
round_float(n, d) ==
    IF 2 * (n % d) = d THEN {n \div d, n \div d + 1} ELSE {round_div(n, d)}

conf_base == 35
conf_points_cap == 35
conf_points_ramp == 1200
conf_port_bonus == 15
conf_heading_bonus == 10
conf_max == 95

\* hundredths per point of the ramp, inverted: conf_points_ramp / 100
RampUnit == conf_points_ramp \div 100

\* base before rounding, in hundredths times RampUnit
confidence_base(points_count, has_last_port, heading_known) ==
    RampUnit * conf_base
    + Min(RampUnit * conf_points_cap, points_count)
    + (IF has_last_port THEN RampUnit * conf_port_bonus ELSE 0)
    + (IF heading_known THEN RampUnit * conf_heading_bonus ELSE 0)

\* the values round(min(0.95, base), 2) can take, in hundredths
confidence_score(points_count, has_last_port, heading_known) ==
    round_float(Min(RampUnit * conf_max,
                    confidence_base(points_count, has_last_port, heading_known)),
                RampUnit)

EtaDistances == {None, NotNumber, 0, 50000, 900000}
EtaSpeeds == {None, NotNumber, 0, 10, 20, 21, 125}
EtaCalls ==
    {[fn |-> "estimate_eta_hours", distance_km |-> d, speed_kn |-> s] :
        d \in EtaDistances, s \in EtaSpeeds}

PointCounts == {0, 1, 5, 6, 300, 420, 600, 1199, 1200, 1201, 6000}
ConfidenceCalls ==
    {[fn |-> "confidence_score", points_count |-> n, has_last_port |-> p,
      heading_known |-> h] : n \in PointCounts, p \in BOOLEAN, h \in BOOLEAN}

EstimateEta ==
    /\ call_pc = "called"
    /\ call.fn = "estimate_eta_hours"
    /\ ret' = estimate_eta_hours(call.distance_km, call.speed_kn)
    /\ call_pc' = "returned"
    /\ UNCHANGED <<call, scored>>
    /\ UNCHANGED beside_calls

Confidence ==
    /\ call_pc = "called"
    /\ call.fn = "confidence_score"
    /\ \E c \in confidence_score(call.points_count, call.has_last_port,
                                 call.heading_known) :
          ret' = [confidence |-> c]
    /\ call_pc' = "returned"
    /\ UNCHANGED <<call, scored>>
    /\ UNCHANGED beside_calls

----------------------------------------------------------------------------
(* The voyage view: load_track_points and api_voyage.                      *)

max_points == 6000
min_voyage_points == 5

Row(ts, lat, speed, course, trip_id) ==
    [ts |-> ts, lat |-> lat, lon |-> 0, speed |-> speed, course |-> course,
     trip_id |-> trip_id]

\* the point of one row of the track file
loaded_point(r) ==
    [lat |-> to_float(Field(r, "lat"), None),
     lon |-> to_float(Field(r, "lon"), None),
     ts |-> Field(r, "ts"),
     speed |-> to_float(Field(r, "speed"), 0),
     course |-> to_float(Field(r, "course"), None),
     trip_id |-> Field(r, "trip_id")]

RECURSIVE LoadFrom(_, _)
LoadFrom(rows, i) ==
    IF i > Len(rows) THEN <<>>
    ELSE LET p == loaded_point(rows[i])
         IN  IF p.lat = None \/ p.lon = None THEN LoadFrom(rows, i + 1)
             ELSE <<p>> \o LoadFrom(rows, i + 1)

\* the rows with a position, the last max_points of them
load_track_points(rows) ==
    LET pts == LoadFrom(rows, 1)
    IN  IF Len(pts) > max_points
        THEN SubSeq(pts, Len(pts) - max_points + 1, Len(pts))
        ELSE pts

\* the test of api_voyage without the port table
nothing_to_show_points_only(points, ports) == Len(points) < min_voyage_points

\* len(points) < 5 or not ports
nothing_to_show(points, ports) == Len(points) < min_voyage_points \/ ports = <<>>

no_voyage == [last_port |-> NoneRec, at_sea |-> NoneRec,
              likely_next_port |-> NoneRec, confidence |-> 0]

\* the responses api_voyage can give for the rows of the track file
api_voyage(rows, ports) ==
    LET points == load_track_points(rows) IN
    IF nothing_to_show(points, ports) THEN {no_voyage}
    ELSE LET last == points[Len(points)]
             stops == detect_port_stops(points, ports)
             last_port == IF stops # <<>> THEN stops[Len(stops)] ELSE NoneRec
             next_port == predict_next_port(last, ports)
             eta_hours == IF next_port # NoneRec
                          THEN estimate_eta_hours(next_port.distance_km, last.speed)
                          ELSE NoneRec
             at_sea == [speed_kn |-> or_zero(last.speed),
                        course_deg |-> last.course,
                        position |-> [lat |-> last.lat, lon |-> last.lon],
                        ts |-> last.ts]
             \* round(eta_hours, 1), in tenths of an hour
             etas == IF eta_hours = NoneRec THEN {None}
                     ELSE round_float(10 * eta_hours.num, eta_hours.den)
             next_ports == IF next_port = NoneRec THEN {NoneRec}
                           ELSE {Merge(next_port, [eta_hours |-> e]) : e \in etas}
             confs == confidence_score(Len(points), last_port # NoneRec,
                                       last.course # None)
         IN  {[last_port |-> last_port, at_sea |-> at_sea,
               likely_next_port |-> n, confidence |-> c] :
                  n \in next_ports, c \in confs}

MaxRows == 6
AtMiami0 == Row(0, 0, 0, None, 1)
AtMiami3600 == Row(3600, 0, 0, 90, 1)
Underway == Row(7200, 5000, 150, 0, 1)
NoPosition == Row(7200, None, 150, 0, 1)
VoyageRows == {AtMiami0, AtMiami3600, Underway, NoPosition}
VoyageTables == {<<>>, <<PortA, PortB>>}
VoyageCalls ==
    {[fn |-> "api_voyage", rows |-> r, ports |-> t] :
        r \in UNION {[1..n -> VoyageRows] : n \in 0..MaxRows}, t \in VoyageTables}

StopPoints == {<<>>, <<Pt(0, 0, 0, 1)>>, <<Pt(0, 0, 0, 1), Pt(3600, 0, 0, 1)>>}
StopCalls ==
    {[fn |-> "detect_port_stops", points |-> p, ports |-> t] :
        p \in StopPoints, t \in VoyageTables}

ApiVoyage ==
    /\ call_pc = "called"
    /\ call.fn = "api_voyage"
    /\ ret' \in api_voyage(call.rows, call.ports)
    /\ call_pc' = "returned"
    /\ UNCHANGED <<call, scored>>
    /\ UNCHANGED beside_calls

DetectPortStops ==
    /\ call_pc = "called"
    /\ call.fn = "detect_port_stops"
    /\ ret' = [stops |-> detect_port_stops(call.points, call.ports)]
    /\ call_pc' = "returned"
    /\ UNCHANGED <<call, scored>>
    /\ UNCHANGED beside_calls

\* on_message from prev_state = trip_state.get(mmsi_str) to the write of
\* trip_state[mmsi_str], for a report that passed the checks before it
position_branch(d, mmsi_str, lat, lon, ts) ==
    LET prev_state == Get(d, mmsi_str)
        trip_id == assign_trip_id(prev_state, lat, lon, ts)
        record == should_record_point(prev_state, lat, lon, ts)
    IN  [trip_id |-> trip_id, record |-> record,
         trip_state |-> update_trip_state(d, mmsi_str, trip_id, ts, lat, lon)]

\* the trip state of vessel 1 before the first report of a call: none, one
\* written at time 0, or one whose last_ts does not parse
StatesBefore ==
    {EmptyDict}
    \cup {Put(EmptyDict, "1", [trip_id |-> 2, last_ts |-> t, last_lat |-> 0, last_lon |-> 0]) :
             t \in {0, BadTs}}

\* two reports of vessel 1, the second later than the first
PositionCalls ==
    {[fn |-> "position_branch", trip_state |-> d, lat |-> lat, ts |-> ts,
      next_lat |-> lat2, next_ts |-> ts2] :
        d \in StatesBefore, lat \in Lats, ts \in {30, 60},
        lat2 \in Lats, ts2 \in {90, 120, 21690}}

HandleReport ==
    /\ call_pc = "called"
    /\ call.fn = "position_branch"
    /\ ret' = position_branch(call.trip_state, "1", call.lat, 0, call.ts)
    /\ call_pc' = "returned"
    /\ UNCHANGED <<call, scored>>
    /\ UNCHANGED beside_calls

HandleNextReport ==
    /\ call_pc = "returned"
    /\ call.fn = "position_branch"
    /\ ret' = [first |-> ret,
               second |-> position_branch(ret.trip_state, "1", call.next_lat, 0,
                                          call.next_ts)]
    /\ call_pc' = "followed"
    /\ UNCHANGED <<call, scored>>
    /\ UNCHANGED beside_calls

----------------------------------------------------------------------------
(* firestore_db.get_track_points.  The query orders the track documents by *)
(* ts and keeps the first `limit` of them; documents of equal ts come in   *)
(* the order of their auto-generated ids, which is any order.              *)

MaxStored == 3
SmallLimit == 2
limit_default == 20000

\* a track document; lat is None where the document has no coordinates
Doc(trip_id, ts, lat) == [trip_id |-> trip_id, ts |-> ts, lat |-> lat, lon |-> 0]

Injections(n) == {f \in [1..n -> 1..n] : \A i, j \in 1..n : i # j => f[i] # f[j]}

\* .order_by("ts"): the orders the documents can come in
order_by_ts(stored) ==
    {[i \in 1..Len(stored) |-> stored[f[i]]] : f \in
        {g \in Injections(Len(stored)) :
            \A i, j \in 1..Len(stored) : i < j => stored[g[i]].ts <= stored[g[j]].ts}}

\* .order_by("ts").limit(limit).stream(): the document lists it can give
tracks_query(stored, lim) ==
    {SubSeq(q, 1, Min(lim, Len(q))) : q \in order_by_ts(stored)}

\* for d in docs: last_trip = rec.get("trip_id", last_trip)
RECURSIVE last_trip_from(_, _, _)
last_trip_from(docs, i, last_trip) ==
    IF i > Len(docs) THEN last_trip
    ELSE last_trip_from(docs, i + 1,
                        IF "trip_id" \in DOMAIN docs[i] THEN docs[i].trip_id ELSE last_trip)

\* the second loop: the points of the documents kept
RECURSIVE points_from(_, _, _, _)
points_from(docs, i, mode, last_trip) ==
    IF i > Len(docs) THEN <<>>
    ELSE LET rec == docs[i]
             trip_id == Field(rec, "trip_id")
             rest == points_from(docs, i + 1, mode, last_trip)
         IN  IF mode # "all" /\ trip_id # last_trip THEN rest
             ELSE IF Field(rec, "lat") = None \/ Field(rec, "lon") = None THEN rest
             ELSE IF mode = "all"
                  THEN <<<<rec.lat, rec.lon, Field(rec, "ts"), trip_id>>>> \o rest
                  ELSE <<<<rec.lat, rec.lon, Field(rec, "ts")>>>> \o rest

\* get_track_points from docs = list(tracks_ref.stream()) on
get_track_points(docs, mode) ==
    IF docs = <<>> THEN [trip_id |-> None, points |-> <<>>]
    ELSE LET last_trip == last_trip_from(docs, 1, None)
         IN  [trip_id |-> last_trip, points |-> points_from(docs, 1, mode, last_trip)]

\* tracks as the worker appends them: timestamps and trip ids do not
\* decrease in append order; a document without coordinates is one that
\* something else wrote
StoredDocs == {Doc(t, ts, lat) : t \in {1, 2}, ts \in {0, 60}, lat \in {0, 200, None}}
StoredTracks ==
    {s \in UNION {[1..n -> StoredDocs] : n \in 0..MaxStored} :
        \A i, j \in 1..Len(s) :
            i < j => s[i].ts <= s[j].ts /\ s[i].trip_id <= s[j].trip_id}

TrackCalls ==
    {[fn |-> "get_track_points", stored |-> s, mode |-> m, limit |-> l] :
        s \in StoredTracks, m \in {"current", "all"}, l \in {SmallLimit, limit_default}}

GetTrackPoints ==
    /\ call_pc = "called"
    /\ call.fn = "get_track_points"
    /\ \E docs \in tracks_query(call.stored, call.limit) :
          ret' = get_track_points(docs, call.mode)
    /\ call_pc' = "returned"
    /\ UNCHANGED <<call, scored>>
    /\ UNCHANGED beside_calls

Calls ==
    PredictCalls \cup EtaCalls \cup ConfidenceCalls \cup VoyageCalls \cup StopCalls
    \cup PositionCalls \cup TrackCalls

CallsInit ==
    /\ variant = "TrackAPI"
    /\ HandlersAtRest
    /\ api_key = "k3y"
    /\ LoopAtRest
    /\ ports_in = <<>>
    /\ DetectAtRest
    /\ ScanAtRest
    /\ ProcessAtRest
    /\ call \in Calls
    /\ ret = NoneRec
    /\ scored = <<>>
    /\ call_pc = "called"

CallsNext ==
    \/ Predict
    \/ EstimateEta
    \/ Confidence
    \/ ApiVoyage
    \/ DetectPortStops
    \/ HandleReport
    \/ HandleNextReport
    \/ GetTrackPoints

SpecCalls == CallsInit /\ [][CallsNext]_all_vars

----------------------------------------------------------------------------
(* Properties of the calls.                                                *)

Returned(fn) == call_pc = "returned" /\ call.fn = fn

\* the point of a prediction call has coordinates and there are ports
HasPosition ==
    /\ call.last_point # NoneRec
    /\ call.ports # <<>>
    /\ Field(call.last_point, "lat") # None
    /\ Field(call.last_point, "lon") # None

\* metres from the point of a prediction call to port i of its table
MetresTo(i) ==
    Abs(call.ports[i].lat - call.last_point.lat)
    + Abs(call.ports[i].lon - call.last_point.lon)

InRadius == {i \in 1..Len(call.ports) : MetresTo(i) <= 900000}

IndexOf(port) == CHOOSE i \in 1..Len(call.ports) : call.ports[i] = port

\* the combined score of a scored candidate over 20 * 180 * its dist.den:
\* 0.65 * heading + 0.35 * distance with a course, distance alone without
Combined(c) ==
    IF Field(call.last_point, "course") # None
    THEN 13 * Max(0, 180 - c.hdiff) * c.dist.den + 7 * 180 * c.dist.num
    ELSE 20 * 180 * c.dist.num

(* C22: predict_next_port returns no prediction exactly when the point or  *)
(* the port table is empty, the point has no coordinates, or no port lies  *)
(* within max_km of it; otherwise the candidates are the ports within      *)
(* max_km in table order, each with the combined score, and the returned   *)
(* port is a candidate whose score is the maximum and strictly above the   *)
(* score of every candidate before it in the table.                        *)
C22_BestCandidateFirstOfTies ==
    Returned("predict_next_port") =>
        /\ ret = NoneRec <=> (~HasPosition \/ InRadius = {})
        /\ ret # NoneRec =>
              /\ Len(scored) = Cardinality(InRadius)
              /\ \A j \in 1..Len(scored) :
                    /\ IndexOf(scored[j].port) \in InRadius
                    /\ scored[j].score = Combined(scored[j])
                    /\ scored[j].den = scored[1].den
                    /\ \A i \in 1..(j - 1) :
                          IndexOf(scored[i].port) < IndexOf(scored[j].port)
              /\ \E k \in 1..Len(scored) :
                    /\ ret.name = scored[k].port.name
                    /\ ret.lat = scored[k].port.lat
                    /\ ret.lon = scored[k].port.lon
                    /\ MetresTo(IndexOf(scored[k].port)) <= 900000
                    /\ \A j \in 1..Len(scored) : scored[j].score <= scored[k].score
                    /\ \A j \in 1..(k - 1) : scored[j].score < scored[k].score

\* one port out of range and two equidistant ones with no course: the
\* first of the two is returned
C22_Witness ==
    /\ Returned("predict_next_port")
    /\ call.last_point = Ship(0, 0, None)
    /\ call.ports = <<South950, North100, East100>>
    /\ Len(scored) = 2
    /\ scored[1].score = scored[2].score
    /\ ret # NoneRec
    /\ ret.name = "North 100"

\* no port within max_km of a point with coordinates: no prediction
C22_WitnessNoneInRange ==
    /\ Returned("predict_next_port")
    /\ call.last_point = Ship(0, 0, 90)
    /\ call.ports = <<South950>>
    /\ ret = NoneRec

\* the largest distance among the ports within max_km, 1 where it is 0
FarthestMetres ==
    LET m == CHOOSE d \in {MetresTo(i) : i \in InRadius} :
                 \A i \in InRadius : MetresTo(i) <= d
    IN  IF m = 0 THEN 1 ELSE m

Equidistant == \A i, j \in InRadius : MetresTo(i) = MetresTo(j)

\* c.dist is the fraction 1 - distance / FarthestMetres
DistanceScoreIs(c) ==
    /\ c.dkm = MetresTo(IndexOf(c.port))
    /\ c.dist.den > 0
    /\ c.dist.num * FarthestMetres = (FarthestMetres - c.dkm) * c.dist.den

(* C23 as stated: the distance score is 1 - distance / max distance among  *)
(* the candidates, and where all the candidates are equidistant (a single  *)
(* candidate included) every distance score is 1.                          *)
C23_EquidistantScoresOne ==
    (Returned("predict_next_port") /\ scored # <<>>) =>
        /\ \A j \in 1..Len(scored) : DistanceScoreIs(scored[j])
        /\ Equidistant => \A j \in 1..Len(scored) : scored[j].dist.num = scored[j].dist.den

(* C23 amended: the distance score is 1 - distance / max distance among    *)
(* the candidates, the maximum taken for 1 where it is 0; the farthest     *)
(* candidate scores 0 unless it is at distance 0; where all candidates are *)
(* equidistant (a single candidate included) every distance score is 0,    *)
(* and it is 1 only where they are all at distance 0.                      *)
C23_DistanceScoreRelativeToFarthest ==
    (Returned("predict_next_port") /\ scored # <<>>) =>
        /\ \A j \in 1..Len(scored) :
              /\ DistanceScoreIs(scored[j])
              /\ 0 <= scored[j].dist.num /\ scored[j].dist.num <= scored[j].dist.den
              /\ (scored[j].dkm = FarthestMetres) => scored[j].dist.num = 0
        /\ Equidistant =>
              \A j \in 1..Len(scored) :
                  IF scored[j].dkm = 0
                  THEN scored[j].dist.num = scored[j].dist.den
                  ELSE scored[j].dist.num = 0

\* a single candidate 50 km away: its distance score is 0
C23_Witness ==
    /\ Returned("predict_next_port")
    /\ call.last_point = Ship(0, 0, 90)
    /\ call.ports = <<North50>>
    /\ Len(scored) = 1
    /\ scored[1].dist.num = 0
    /\ ret # NoneRec /\ ret.score = 325

\* a single candidate at the ship's position: its distance score is 1
C23_WitnessAtPort ==
    /\ Returned("predict_next_port")
    /\ call.last_point = Ship(0, 0, None)
    /\ call.ports = <<Here>>
    /\ Len(scored) = 1
    /\ scored[1].dist.num = scored[1].dist.den
    /\ ret # NoneRec /\ ret.score = 1000

\* course 90 and two candidates: due east at 100 km, due north at 50 km
EastVersusNorth ==
    /\ Returned("predict_next_port")
    /\ call.last_point # NoneRec
    /\ call.last_point = Ship(0, 0, 90)
    /\ Len(call.ports) = 2
    /\ {call.ports[1], call.ports[2]} = {East100, North50}

(* C24: with course 90 and two candidates, one due east (heading           *)
(* difference 0) at 100 km and one due north (heading difference 90) at    *)
(* 50 km, predict_next_port returns the eastern port: its combined score   *)
(* is 0.65, the northern port's 0.5.                                       *)
C24_HeadingOutweighsDistance ==
    EastVersusNorth =>
        /\ ret # NoneRec
        /\ ret.name = "East 100"
        /\ ret.distance_km = 100000
        /\ ret.heading_diff_deg = 0
        /\ ret.score = 650
        /\ \A j \in 1..Len(scored) :
              IF scored[j].port = East100
              THEN /\ scored[j].hdiff = 0
                   /\ 100 * scored[j].score = 65 * scored[j].den
              ELSE /\ scored[j].hdiff = 90
                   /\ 100 * scored[j].score = 50 * scored[j].den

\* the nearer northern port comes first in the table and is passed over
C24_Witness ==
    /\ EastVersusNorth
    /\ call.ports = <<North50, East100>>
    /\ ret.name = "East 100"
    /\ scored[1].score < scored[2].score

\* a call of estimate_eta_hours with a distance and a speed above 2 knots
EtaDue ==
    /\ call.distance_km \notin {None, NotNumber}
    /\ call.speed_kn \notin {None, NotNumber}
    /\ call.speed_kn > 20

(* C25: estimate_eta_hours returns a value exactly when a distance is      *)
(* given and the speed is strictly greater than 2 knots, and the value is  *)
(* distance_km / (speed_kn * 1.852); a missing speed, a speed of 2 or      *)
(* below or a missing distance gives None, and so does a value that is no  *)
(* number, where the exception is caught.                                  *)
C25_EtaOnlyAboveTwoKnots ==
    Returned("estimate_eta_hours") =>
        /\ ret # NoneRec <=> EtaDue
        /\ ret # NoneRec =>
              /\ ret.den = 1852 * call.speed_kn
              /\ ret.num = 10 * call.distance_km

\* 50 km at 2.1 knots: 50 / (2.1 * 1.852) hours
C25_Witness ==
    /\ Returned("estimate_eta_hours")
    /\ call.distance_km = 50000
    /\ call.speed_kn = 21
    /\ ret # NoneRec
    /\ ret.num = 500000 /\ ret.den = 38892

\* 50 km at exactly 2 knots: no ETA
C25_WitnessAtFloor ==
    /\ Returned("estimate_eta_hours")
    /\ call.distance_km = 50000
    /\ call.speed_kn = 20
    /\ ret = NoneRec

\* what a returned confidence holds above the start and the two flag
\* bonuses, in hundredths: the point-count bonus
PointBonus ==
    ret.confidence - 35
    - (IF call.has_last_port THEN 15 ELSE 0)
    - (IF call.heading_known THEN 10 ELSE 0)

\* no call with more points and the same flags can return less
NonDecreasingInPoints ==
    \A n \in PointCounts :
        n > call.points_count =>
            \A c \in confidence_score(n, call.has_last_port, call.heading_known) :
                ret.confidence <= c

(* C26 as stated: confidence_score starts at 0.35, is non-decreasing in    *)
(* points_count, lies in [0.35, 0.95], is 0.35 for (0, False, False) and   *)
(* 0.95 for (1200, True, True), and its point-count bonus reaches the full *)
(* +0.35 at 1200 points and not before.                                    *)
C26_FullBonusAt1200NotBefore ==
    Returned("confidence_score") =>
        /\ 35 <= ret.confidence /\ ret.confidence <= 95
        /\ NonDecreasingInPoints
        /\ (call.points_count = 0 /\ ~call.has_last_port /\ ~call.heading_known)
              => ret.confidence = 35
        /\ (call.points_count = 1200 /\ call.has_last_port /\ call.heading_known)
              => ret.confidence = 95
        /\ call.points_count >= 1200 => PointBonus = 35
        /\ call.points_count < 1200 => PointBonus < 35

\* what the code does keep of C26: the range, the two values, the order,
\* and a bonus of points_count / 1200 that is full from 420 points on
ConfidenceFullFrom420 ==
    Returned("confidence_score") =>
        /\ 35 <= ret.confidence /\ ret.confidence <= 95
        /\ NonDecreasingInPoints
        /\ (call.points_count = 0 /\ ~call.has_last_port /\ ~call.heading_known)
              => ret.confidence = 35
        /\ (call.points_count = 1200 /\ call.has_last_port /\ call.heading_known)
              => ret.confidence = 95
        /\ call.points_count >= 420 <=> PointBonus = 35

\* the points api_voyage loads for the rows of a voyage call
Loaded == SelectSeq(call.rows, LAMBDA r : r.lat # None /\ r.lon # None)

(* C27: derived queries give an explicit no-result value: detect_port_stops *)
(* returns the empty list for empty points or empty ports,                  *)
(* predict_next_port returns None for an empty point, empty ports or a      *)
(* point without coordinates, and the voyage view returns last_port,        *)
(* at_sea and likely_next_port null with confidence 0.0 whenever fewer than *)
(* 5 points are loaded or the port table is empty.                          *)
C27_NoResultInsteadOfError ==
    /\ (Returned("detect_port_stops") /\ (call.points = <<>> \/ call.ports = <<>>))
          => ret.stops = <<>>
    /\ (Returned("predict_next_port") /\
        (\/ call.last_point = NoneRec
         \/ call.ports = <<>>
         \/ Field(call.last_point, "lat") = None
         \/ Field(call.last_point, "lon") = None))
          => ret = NoneRec
    /\ (Returned("api_voyage") /\ (Len(Loaded) < 5 \/ call.ports = <<>>))
          => /\ ret.last_port = NoneRec
             /\ ret.at_sea = NoneRec
             /\ ret.likely_next_port = NoneRec
             /\ ret.confidence = 0

\* six rows of which four have a position: nothing is shown
C27_Witness ==
    /\ Returned("api_voyage")
    /\ Len(call.rows) = 6
    /\ Len(Loaded) = 4
    /\ call.ports # <<>>
    /\ ret = no_voyage

\* six points loaded and no port table: nothing is shown
C27_WitnessNoPorts ==
    /\ Returned("api_voyage")
    /\ Len(Loaded) = 6
    /\ call.ports = <<>>
    /\ ret = no_voyage

\* five points loaded, the vessel two hours at Miami: everything is shown
C27_WitnessShown ==
    /\ Returned("api_voyage")
    /\ Len(Loaded) = 5
    /\ ret.last_port # NoneRec
    /\ ret.at_sea # NoneRec
    /\ ret.likely_next_port # NoneRec
    /\ ret.confidence > 0

\* the stored timestamp of vessel 1 did not parse when the call was made
BadStoredTs ==
    /\ call.fn = "position_branch"
    /\ "1" \in DOMAIN call.trip_state
    /\ call.trip_state["1"].last_ts = BadTs

(* C28: when the timestamp of a vessel's previous trip state cannot be     *)
(* parsed the report is handled all the same: the elapsed time counts as   *)
(* having met the record threshold, so the report is recorded; no time gap *)
(* is seen, so only a jump starts a new trip; trip_state is replaced by    *)
(* the report with its own timestamp, and the next report is recorded and  *)
(* given its trip by the ordinary rules against it.                        *)
C28_BadTimestampFailsOpen ==
    /\ (BadStoredTs /\ call_pc = "returned") =>
          /\ ret.record
          /\ ret.trip_id = IF Abs(call.lat - 0) >= 150000 THEN 2 + 1 ELSE 2
          /\ ret.trip_state["1"] = [trip_id |-> ret.trip_id, last_ts |-> call.ts,
                                    last_lat |-> call.lat, last_lon |-> 0]
    /\ (BadStoredTs /\ call_pc = "followed") =>
          /\ ret.second.record <=>
                (\/ call.next_ts - call.ts >= 60
                 \/ Abs(call.next_lat - call.lat) >= 200)
          /\ ret.second.trip_id =
                IF \/ call.next_ts - call.ts >= 6 * 3600
                   \/ Abs(call.next_lat - call.lat) >= 150000
                THEN ret.first.trip_id + 1
                ELSE ret.first.trip_id
          /\ ret.second.trip_state["1"].last_ts = call.next_ts

\* a report from where the vessel was, against a stored timestamp that
\* does not parse: recorded, same trip
C28_Witness ==
    /\ BadStoredTs
    /\ call_pc = "returned"
    /\ call.lat = 0
    /\ ret.record
    /\ ret.trip_id = 2
    /\ ret.trip_state["1"].last_ts = call.ts

\* the report after it, 30 s later and from the same place: not recorded
C28_WitnessNext ==
    /\ BadStoredTs
    /\ call_pc = "followed"
    /\ call.ts = 60 /\ call.next_ts = 90
    /\ call.lat = call.next_lat
    /\ ~ret.second.record
    /\ ret.second.trip_id = 2

----------------------------------------------------------------------------
(* The worker threads.  run_worker_forever runs run_sync_worker in a       *)
(* thread and awaits it; the thread's websocket loop calls on_message for  *)
(* one frame after the other.  The handling of a position report is taken  *)
(* apart at its blocking Firestore calls: the last-seen upsert with the    *)
(* read of trip_state and the two rules, the append of the track point,    *)
(* the write of trip_state.  A thread ends where run_sync_worker raises or *)
(* returns, which it does outside the handling of a frame.                 *)

MaxThreads == 2

\* a thread between two frames
IdleThread ==
    [pc |-> "running", m |-> NoMsg, ts |-> None, prev_state |-> NoneRec,
     trip_id |-> None, record |-> FALSE]

\* the position reports of vessel 1 that pass the sanity filter
ThreadFrames == {m \in PositionFrames : m.UserID = 1 /\ passes_sanity(m.Latitude, m.Longitude, m.Sog)}

\* the ShipStaticData frame that names vessel 1 as MSC OPERA
ThreadStatics == {Frame("ShipStaticData", 1, RawMessy, None, None, None, None)}

\* asyncio.to_thread(...) taken for done while the thread still runs
awaited_at_once(th) == TRUE

\* await asyncio.to_thread(run_sync_worker) is over: the thread has ended
awaited(th) == th.pc = "ended"

\* worker_server.py startup: asyncio.create_task(run_worker_forever())
StartupTask ==
    /\ sup_pc = "idle"
    /\ sup_pc' = "start"
    /\ UNCHANGED <<threads, boots>>
    /\ UNCHANGED vars

\* asyncio.to_thread(run_sync_worker)
StartThread ==
    /\ sup_pc = "start"
    /\ Len(threads) < MaxThreads
    /\ threads' = Append(threads, IdleThread)
    /\ sup_pc' = "awaiting"
    /\ UNCHANGED boots
    /\ UNCHANGED vars

\* run_sync_worker raises or returns
ThreadEnds(t) ==
    /\ threads[t].pc = "running"
    /\ threads' = [threads EXCEPT ![t].pc = "ended"]
    /\ UNCHANGED <<sup_pc, boots>>
    /\ UNCHANGED vars

\* the await is over; on an exception, on to asyncio.sleep(5)
AwaitOver ==
    /\ sup_pc = "awaiting"
    /\ awaited(threads[Len(threads)])
    /\ sup_pc' = "sleeping"
    /\ UNCHANGED <<threads, boots>>
    /\ UNCHANGED vars

\* the sleep is over: while True
SleepOver ==
    /\ sup_pc = "sleeping"
    /\ sup_pc' = "start"
    /\ UNCHANGED <<threads, boots>>
    /\ UNCHANGED vars

\* a thread handles a ShipStaticData frame
ThreadStatic(t, m) ==
    /\ threads[t].pc = "running"
    /\ OnShipStaticData(m)
    /\ UNCHANGED process_vars

\* on_message up to the two rules: upsert last-seen, read trip_state
ThreadRead(t, m) ==
    /\ threads[t].pc = "running"
    /\ Len(TrackOf(Str(m.UserID))) < MaxTrack
    /\ mmsi_registry_get(Str(m.UserID)) # NoneRec
    /\ LET mmsi_str == Str(m.UserID)
           ts == utc_now_iso
           prev_state == Get(trip_state, mmsi_str)
       IN  /\ ships' = fs_upsert_ship(ships, mmsi_str,
                           LastSeenFields(mmsi_str, mmsi_registry_get(mmsi_str),
                                          m.Latitude, m.Longitude, m.Sog, m.Cog, ts))
           /\ threads' = [threads EXCEPT ![t] =
                  [pc |-> "append", m |-> m, ts |-> ts, prev_state |-> prev_state,
                   trip_id |-> assign_trip_id(prev_state, m.Latitude, m.Longitude, ts),
                   record |-> should_record_point(prev_state, m.Latitude, m.Longitude, ts)]]
    /\ UNCHANGED <<sup_pc, boots>>
    /\ UNCHANGED <<variant, mmsi_registry, trip_state, tracks, now, msg, out>>

\* if should_record_point(...): fs_append_track_point(...)
ThreadAppend(t) ==
    /\ threads[t].pc = "append"
    /\ LET th == threads[t]
           mmsi_str == Str(th.m.UserID)
       IN  tracks' = IF th.record
                     THEN fs_append_track_point(tracks, mmsi_str,
                              TrackPoint(mmsi_str, th.trip_id, th.ts, th.m.Latitude,
                                         th.m.Longitude, th.m.Sog, th.m.Cog))
                     ELSE tracks
    /\ threads' = [threads EXCEPT ![t].pc = "store"]
    /\ UNCHANGED <<sup_pc, boots>>
    /\ UNCHANGED <<variant, mmsi_registry, trip_state, ships, now, msg, out>>

\* trip_state[mmsi_str] = {...}
ThreadStore(t) ==
    /\ threads[t].pc = "store"
    /\ LET th == threads[t]
       IN  trip_state' = update_trip_state(trip_state, Str(th.m.UserID), th.trip_id,
                                           th.ts, th.m.Latitude, th.m.Longitude)
    /\ threads' = [threads EXCEPT ![t] = IdleThread]
    /\ UNCHANGED <<sup_pc, boots>>
    /\ UNCHANGED <<variant, mmsi_registry, ships, tracks, now, msg, out>>

ThreadsInit ==
    /\ variant = "TrackAPI"
    /\ HandlersAtRest
    /\ api_key = "k3y"
    /\ LoopAtRest
    /\ ports_in = <<>>
    /\ DetectAtRest
    /\ ScanAtRest
    /\ CallsAtRest
    /\ ProcessAtRest

ThreadsNext ==
    \/ StartupTask /\ UNCHANGED beside_process
    \/ StartThread /\ UNCHANGED beside_process
    \/ AwaitOver /\ UNCHANGED beside_process
    \/ SleepOver /\ UNCHANGED beside_process
    \/ \E t \in 1..Len(threads) : ThreadEnds(t) /\ UNCHANGED beside_process
    \/ \E t \in 1..Len(threads), m \in ThreadStatics :
           ThreadStatic(t, m) /\ UNCHANGED beside_process
    \/ \E t \in 1..Len(threads), m \in ThreadFrames :
           ThreadRead(t, m) /\ UNCHANGED beside_process
    \/ \E t \in 1..Len(threads) : ThreadAppend(t) /\ UNCHANGED beside_process
    \/ \E t \in 1..Len(threads) : ThreadStore(t) /\ UNCHANGED beside_process
    \/ Tick /\ UNCHANGED other_vars

SpecThreads == ThreadsInit /\ [][ThreadsNext]_all_vars

\* the threads that have not ended
Alive == {t \in 1..Len(threads) : threads[t].pc # "ended"}

\* the trip ids of every track start at 1 and go up by 1 at most
NoTripIdSkipped ==
    \A k \in DOMAIN tracks :
        /\ tracks[k] # <<>> => tracks[k][1].trip_id = 1
        /\ \A i \in 1..(Len(tracks[k]) - 1) :
              tracks[k][i + 1].trip_id - tracks[k][i].trip_id \in {0, 1}

(* C29: at most one worker thread is alive at any time, so between the     *)
(* read of trip_state[v] and the write of trip_state[v] made for one       *)
(* position report nothing else touches trip_state[v], and the trip ids of *)
(* every track neither decrease nor skip a value.                          *)
C29_OneWorkerAtATime ==
    /\ Cardinality(Alive) <= 1
    /\ \A t \in 1..Len(threads) :
          threads[t].pc \in {"append", "store"} =>
              Get(trip_state, Str(threads[t].m.UserID)) = threads[t].prev_state
    /\ NoTripIdSkipped

\* the second thread, started after the first ended, is about to write the
\* state of a report it gave trip 2 after the first thread's trip 1
C29_Witness ==
    /\ Len(threads) = 2
    /\ threads[1].pc = "ended"
    /\ threads[2].pc = "store"
    /\ threads[2].prev_state # NoneRec
    /\ threads[2].prev_state.trip_id = 1
    /\ threads[2].trip_id = 2
    /\ Len(TrackOf("1")) = 2
    /\ tracks["1"][2].trip_id = 2

----------------------------------------------------------------------------
(* A restart of the worker process.  mmsi_registry and trip_state are      *)
(* module-level dicts (TrackAPI.py:65-66) and start empty in the new       *)
(* process; the Firestore collections are kept.                            *)

MaxBoots == 2

Restart ==
    /\ boots < MaxBoots
    /\ boots' = boots + 1
    /\ mmsi_registry' = EmptyDict
    /\ trip_state' = EmptyDict
    /\ msg' = NoMsg
    /\ out' = <<>>
    /\ UNCHANGED <<variant, ships, tracks, now>>
    /\ UNCHANGED <<threads, sup_pc>>
    /\ UNCHANGED beside_process

\* the first start of the process that runs TrackAPI.py
RestartInit ==
    /\ variant = "TrackAPI"
    /\ HandlersAtRest
    /\ api_key = "k3y"
    /\ LoopAtRest
    /\ ports_in = <<>>
    /\ DetectAtRest
    /\ ScanAtRest
    /\ CallsAtRest
    /\ ProcessAtRest

RestartNext ==
    \/ Next
    \/ Restart

SpecRestart == RestartInit /\ [][RestartNext]_all_vars

RECURSIVE MaxTripIdFrom(_, _)
MaxTripIdFrom(track, i) ==
    IF i > Len(track) THEN 0
    ELSE Max(track[i].trip_id, MaxTripIdFrom(track, i + 1))

\* the step appends to the persisted track of k, which held points before
AppendsToKept(k) ==
    /\ k \in DOMAIN tracks'
    /\ tracks[k] # <<>>
    /\ Len(tracks'[k]) = Len(tracks[k]) + 1

(* C30: across a restart of the worker process the trip ids appended to a  *)
(* vessel's persisted track stay non-decreasing: a point appended to a     *)
(* track that holds points gets a trip id not smaller than the largest     *)
(* trip id in the track, also when it is the first after the restart.      *)
C30_TripIdsSurviveRestart ==
    [][ \A k \in DOMAIN tracks :
            AppendsToKept(k) =>
                tracks'[k][Len(tracks'[k])].trip_id >= MaxTripIdFrom(tracks[k], 1) ]_all_vars

\* what the code does: the first point after a restart gets trip id 1
\* whatever the track holds
FirstAfterRestartIsTripOne ==
    [][ \A k \in DOMAIN tracks :
            (AppendsToKept(k) /\ k \notin DOMAIN trip_state) =>
                tracks'[k][Len(tracks'[k])].trip_id = 1 ]_all_vars

\* a track that went to trip 2 before the restart and is at trip 1 after it
RestartReusesTripOne ==
    /\ boots = 2
    /\ Len(TrackOf("1")) = 3
    /\ tracks["1"][2].trip_id = 2
    /\ tracks["1"][3].trip_id = 1

----------------------------------------------------------------------------
\* a and b hold the same elements the same number of times
SameElements(a, b) ==
    /\ Len(a) = Len(b)
    /\ \E f \in Injections(Len(a)) : \A i \in 1..Len(a) : a[i] = b[f[i]]

\* the stored documents of a get_track_points call that have coordinates
WithCoordinates == SelectSeq(call.stored, LAMBDA d : d.lat # None /\ d.lon # None)

\* the trip id of the most recently appended track point
NewestTrip == call.stored[Len(call.stored)].trip_id

TsOrdered(points) ==
    \A i, j \in 1..Len(points) : i < j => points[i][3] <= points[j][3]

(* C31: get_track_points with mode=current returns, for a track of any     *)
(* length, the trip id of the most recently appended track point and       *)
(* exactly the stored points of that trip (those with coordinates), in     *)
(* timestamp order; with mode=all it returns every stored point that has   *)
(* coordinates.                                                            *)
C31_CurrentTripOfWholeTrack ==
    (Returned("get_track_points") /\ call.stored # <<>>) =>
        /\ TsOrdered(ret.points)
        /\ call.mode = "current" =>
              /\ ret.trip_id = NewestTrip
              /\ SameElements(ret.points,
                    [i \in 1..Len(SelectSeq(WithCoordinates, LAMBDA d : d.trip_id = NewestTrip)) |->
                        LET d == SelectSeq(WithCoordinates, LAMBDA e : e.trip_id = NewestTrip)[i]
                        IN  <<d.lat, d.lon, d.ts>>])
        /\ call.mode = "all" =>
              SameElements(ret.points,
                    [i \in 1..Len(WithCoordinates) |->
                        LET d == WithCoordinates[i]
                        IN  <<d.lat, d.lon, d.ts, d.trip_id>>])

\* the track is no longer than the limit of the query, and no two of its
\* documents of different trips carry the same timestamp
WithinLimitNoTie ==
    /\ Len(call.stored) <= call.limit
    /\ \A i, j \in 1..Len(call.stored) :
          call.stored[i].ts = call.stored[j].ts =>
              call.stored[i].trip_id = call.stored[j].trip_id

\* what the code does keep of C31: the claim for such tracks
TrackPointsWithinLimit ==
    (Returned("get_track_points") /\ call.stored # <<>> /\ WithinLimitNoTie) =>
        /\ TsOrdered(ret.points)
        /\ call.mode = "current" =>
              /\ ret.trip_id = NewestTrip
              /\ \A i \in 1..Len(ret.points) :
                    \E j \in 1..Len(call.stored) :
                        /\ call.stored[j].trip_id = NewestTrip
                        /\ ret.points[i] = <<call.stored[j].lat, 0, call.stored[j].ts>>
              /\ Len(ret.points) =
                    Len(SelectSeq(WithCoordinates, LAMBDA d : d.trip_id = NewestTrip))
        /\ call.mode = "all" => Len(ret.points) = Len(WithCoordinates)

\* three points, the newest of trip 2, read with a limit of two: trip 1
LimitKeepsOldestPoints ==
    /\ Returned("get_track_points")
    /\ call.limit = 2
    /\ call.mode = "current"
    /\ call.stored = <<Doc(1, 0, 0), Doc(1, 60, 0), Doc(2, 60, 200)>>
    /\ ret.trip_id = 1
    /\ Len(ret.points) = 2

\* two points of one second and different trips, within the limit: the
\* older trip is reported as the current one
TieReportsOlderTrip ==
    /\ Returned("get_track_points")
    /\ call.limit = limit_default
    /\ call.mode = "current"
    /\ call.stored = <<Doc(1, 0, 0), Doc(2, 0, 200)>>
    /\ ret.trip_id = 1

----------------------------------------------------------------------------
(* The handlers inside the retry loop: frames arrive while a connection is *)
(* open; the connection ends, the loop sleeps and connects again.  The two *)
(* dicts are module-level (TrackAPI.py:65-66, worker.py:32-33) and no step *)
(* of the loop assigns them.                                               *)

\* the identity frames of vessel 1 (a fleet name) and vessel 2 (none)
ReconnectStatics ==
    {Frame("ShipStaticData", 1, RawMessy, None, None, None, None),
     Frame("ShipStaticData", 2, RawTug, None, None, None, None)}

\* the reports of vessel 1 at every latitude, and one of vessel 2
ReconnectFrames ==
    {m \in PositionFrames :
        m.UserID \in Vessels /\ passes_sanity(m.Latitude, m.Longitude, m.Sog)}

ReconnectInit ==
    /\ variant = "TrackAPI"
    /\ HandlersAtRest
    /\ api_key = "k3y"
    /\ LoopAtRest
    /\ ports_in = <<>>
    /\ DetectAtRest
    /\ ScanAtRest
    /\ CallsAtRest
    /\ ProcessAtRest

ReconnectNext ==
    \/ Startup
    \/ Opened
    \/ \E outcome \in Outcomes : RunEnds(outcome)
    \/ Wake
    \/ pc = "open" /\ \E m \in ReconnectStatics : OnShipStaticData(m) /\ UNCHANGED other_vars
    \/ pc = "open" /\ \E m \in ReconnectFrames : OnPositionReport(m) /\ UNCHANGED other_vars
    \/ Tick /\ UNCHANGED other_vars

SpecReconnect == ReconnectInit /\ [][ReconnectNext]_all_vars

\* the step handles, on a connection made after at least one reconnect, a
\* position report of a registered vessel that passes the filter
AcceptedAfterReconnect ==
    /\ AcceptedStep
    /\ pc = "open" /\ pc' = "open"
    /\ reconnects >= 1

\* the report msg' lies within the new-trip thresholds of the trip state
WithinThresholds ==
    /\ Key(msg') \in DOMAIN trip_state
    /\ now - trip_state[Key(msg')].last_ts < 6 * 3600
    /\ Abs(msg'.Latitude - trip_state[Key(msg')].last_lat) < 150000

(* C32: every vessel with a trip_state entry or an appended track point    *)
(* has a registry entry; neither dict ever loses an entry, and the steps   *)
(* of the retry loop (disconnect, sleep, reconnect) leave both as they     *)
(* are; so a position report of a registered vessel that arrives after a   *)
(* reconnect is accepted and, within the 6 h / 150 km thresholds, keeps    *)
(* the trip id of the trip state.                                          *)
C32_RegistrySurvivesReconnect ==
    [][ /\ DOMAIN trip_state' \subseteq DOMAIN mmsi_registry'
        /\ \A k \in DOMAIN tracks' : tracks'[k] # <<>> => k \in DOMAIN mmsi_registry'
        /\ DOMAIN mmsi_registry \subseteq DOMAIN mmsi_registry'
        /\ DOMAIN trip_state \subseteq DOMAIN trip_state'
        /\ pc' # pc => (mmsi_registry' = mmsi_registry /\ trip_state' = trip_state)
        /\ AcceptedAfterReconnect =>
              /\ Key(msg') \in DOMAIN ships'
              /\ Key(msg') \in DOMAIN trip_state'
              /\ trip_state'[Key(msg')].last_ts = now
              /\ trip_state'[Key(msg')].last_lat = msg'.Latitude
              /\ WithinThresholds =>
                    trip_state'[Key(msg')].trip_id = trip_state[Key(msg')].trip_id
      ]_all_vars

\* after two reconnects a report of vessel 1 has just been handled on the
\* open connection; its track holds the points of t = 0 and t = 60, one trip
C32_Witness ==
    /\ reconnects >= 2
    /\ pc = "open"
    /\ AcceptedFrame
    /\ Key(msg) = "1"
    /\ now = 60
    /\ Len(TrackOf("1")) = 2
    /\ tracks["1"][1].ts = 0 /\ tracks["1"][2].ts = 60
    /\ tracks["1"][1].trip_id = 1 /\ tracks["1"][2].trip_id = 1
    /\ trip_state["1"].trip_id = 1

=============================================================================
